---------------------------- MODULE Spec2Model ----------------------------
(***************************************************************************)
(* State-machine model of the PC build assistant's engine:                 *)
(*   backend/app/services/compatibility_service.py  (CompatibilityService) *)
(*   backend/app/services/suggestion_service.py     (ComponentScorer,      *)
(*                                                   SuggestionService)    *)
(* and of the routes in front of it:                                       *)
(*   backend/app/routes/compatibility.py, backend/app/routes/components.py *)
(*   backend/app/core/cache.py                      (CacheManager)         *)
(*                                                                         *)
(* A Python dict is a TLA+ function whose domain is the set of keys that   *)
(* are present; a missing key is a key outside the domain.  Python strings *)
(* are TLA+ strings.  The glyphs of the messages are written in ASCII:     *)
(* the check mark as "(ok)", the cross as "(x)", the warning sign as "(!)" *)
(* and the greater-or-equal sign as ">=".                                  *)
(*                                                                         *)
(* One call is modelled as a request (the entry point and its arguments)   *)
(* and the response the entry point returns for it.  The record objects a  *)
(* call was handed by the catalog are kept in records, the stores of       *)
(* backend/app/core/cache.py in caches; history is the log of the calls a  *)
(* session has completed.                                                  *)
(***************************************************************************)
EXTENDS Integers, Sequences, FiniteSets, TLC

VARIABLES request, response, records, caches, history

vars == <<request, response, records, caches, history>>

-----------------------------------------------------------------------------
(* Python values *)

\* {} : the dict without keys.
EmptyDict == [k \in {} |-> 0]

\* What d.get(k) returns for a string-valued key that is missing.
None == "None"

\* d.get(k, default)
Get(d, k, default) == IF k \in DOMAIN d THEN d[k] ELSE default

\* bool(s) of a string or None: None and "" are falsy.
TruthyStr(s) == s # None /\ s # ""

\* bool(d) of a dict or None; None is carried as the dict without keys, the
\* code only ever tests such a value for truth.
TruthyDict(d) == DOMAIN d # {}

\* d.get(k) or fallback, for a numeric key: a missing key, None and 0 are falsy.
GetOrNum(d, k, fallback) == IF k \in DOMAIN d /\ d[k] # 0 THEN d[k] ELSE fallback

\* d.get(k) or fallback, for a string key: a missing key, None and "" are falsy.
GetOrStr(d, k, fallback) == IF k \in DOMAIN d /\ d[k] # "" THEN d[k] ELSE fallback

\* s[:n]
Prefix(s, n) == SubSeq(s, 1, IF Len(s) < n THEN Len(s) ELSE n)

\* sub in s
Contains(s, sub) ==
    \E i \in 1..(Len(s) - Len(sub) + 1) : SubSeq(s, i, i + Len(sub) - 1) = sub

LowerLetters == "abcdefghijklmnopqrstuvwxyz"
UpperLetters == "ABCDEFGHIJKLMNOPQRSTUVWXYZ"

UpperChar(c) ==
    IF \E i \in 1..Len(LowerLetters) : SubSeq(LowerLetters, i, i) = c
    THEN LET i == CHOOSE j \in 1..Len(LowerLetters) : SubSeq(LowerLetters, j, j) = c
         IN  SubSeq(UpperLetters, i, i)
    ELSE c

\* s.upper()
RECURSIVE Upper(_)
Upper(s) ==
    IF Len(s) = 0 THEN ""
    ELSE UpperChar(SubSeq(s, 1, 1)) \o Upper(SubSeq(s, 2, Len(s)))

\* int(x * 1.25) for an integer x >= 0: the product truncated.
IntTimes125(x) == (5 * x) \div 4

\* ceil(x * 1.25) for an integer x >= 0: the product rounded up.
CeilTimes125(x) == (5 * x + 3) \div 4

-----------------------------------------------------------------------------
(* CompatibilityService: the pairwise checkers *)

DEFAULT_GPU_TDP == 200
DEFAULT_CPU_TDP == 125
SYSTEM_OVERHEAD == 150
CPU_PSU_OVERHEAD == 100

\* The (is_compatible, message) tuple a checker returns.
Result(compatible, message) == [compatible |-> compatible, message |-> message]

\* check_cpu_motherboard comparing the sockets without regard to case.
check_cpu_motherboard_nocase(cpu, motherboard) ==
    LET cpu_specs  == Get(cpu, "specs", EmptyDict)
        mb_specs   == Get(motherboard, "specs", EmptyDict)
        cpu_socket == GetOrStr(cpu_specs, "socket", Get(cpu, "socket", None))
        mb_socket  == GetOrStr(mb_specs, "socket", Get(motherboard, "socket", None))
    IN  IF ~TruthyStr(cpu_socket) \/ ~TruthyStr(mb_socket)
        THEN Result(FALSE, "Missing socket information")
        ELSE IF Upper(cpu_socket) = Upper(mb_socket)
        THEN Result(TRUE, "(ok) Compatible: Both use " \o cpu_socket \o " socket")
        ELSE Result(FALSE, "(x) Incompatible: CPU uses " \o cpu_socket
                           \o ", motherboard uses " \o mb_socket)

\* check_cpu_motherboard testing only the socket of the motherboard for absence.
check_cpu_motherboard_anycpu(cpu, motherboard) ==
    LET cpu_specs  == Get(cpu, "specs", EmptyDict)
        mb_specs   == Get(motherboard, "specs", EmptyDict)
        cpu_socket == GetOrStr(cpu_specs, "socket", Get(cpu, "socket", None))
        mb_socket  == GetOrStr(mb_specs, "socket", Get(motherboard, "socket", None))
    IN  IF ~TruthyStr(mb_socket)
        THEN Result(FALSE, "Missing socket information")
        ELSE IF cpu_socket = mb_socket
        THEN Result(TRUE, "(ok) Compatible: Both use " \o cpu_socket \o " socket")
        ELSE Result(FALSE, "(x) Incompatible: CPU uses " \o cpu_socket
                           \o ", motherboard uses " \o mb_socket)

check_cpu_motherboard(cpu, motherboard) ==
    LET cpu_specs  == Get(cpu, "specs", EmptyDict)
        mb_specs   == Get(motherboard, "specs", EmptyDict)
        cpu_socket == GetOrStr(cpu_specs, "socket", Get(cpu, "socket", None))
        mb_socket  == GetOrStr(mb_specs, "socket", Get(motherboard, "socket", None))
    IN  IF ~TruthyStr(cpu_socket) \/ ~TruthyStr(mb_socket)
        THEN Result(FALSE, "Missing socket information")
        ELSE IF cpu_socket = mb_socket
        THEN Result(TRUE, "(ok) Compatible: Both use " \o cpu_socket \o " socket")
        ELSE Result(FALSE, "(x) Incompatible: CPU uses " \o cpu_socket
                           \o ", motherboard uses " \o mb_socket)

\* check_ram_motherboard comparing the prefixes as written, not upper-cased.
check_ram_motherboard_noupper(ram, motherboard) ==
    LET ram_specs      == Get(ram, "specs", EmptyDict)
        mb_specs       == Get(motherboard, "specs", EmptyDict)
        ram_type       == GetOrStr(ram_specs, "type", Get(ram, "type", None))
        mb_memory_type == GetOrStr(mb_specs, "memory_type",
                                   Get(motherboard, "memory_type", None))
    IN  IF ~TruthyStr(ram_type) \/ ~TruthyStr(mb_memory_type)
        THEN Result(TRUE, "(!) Warning: Missing memory type information")
        ELSE LET ram_ddr == Prefix(ram_type, 4)
                 mb_ddr  == Prefix(mb_memory_type, 4)
             IN  IF TruthyStr(ram_ddr) /\ TruthyStr(mb_ddr) /\ ram_ddr = mb_ddr
                 THEN Result(TRUE, "(ok) Compatible: Both use " \o ram_ddr)
                 ELSE IF TruthyStr(ram_ddr) /\ TruthyStr(mb_ddr)
                 THEN Result(FALSE, "(x) Incompatible: RAM is " \o ram_ddr
                                    \o ", motherboard supports " \o mb_ddr)
                 ELSE Result(TRUE, "(!) Warning: Cannot verify memory compatibility")

check_ram_motherboard(ram, motherboard) ==
    LET ram_specs      == Get(ram, "specs", EmptyDict)
        mb_specs       == Get(motherboard, "specs", EmptyDict)
        ram_type       == GetOrStr(ram_specs, "type", Get(ram, "type", None))
        mb_memory_type == GetOrStr(mb_specs, "memory_type",
                                   Get(motherboard, "memory_type", None))
    IN  IF ~TruthyStr(ram_type) \/ ~TruthyStr(mb_memory_type)
        THEN Result(TRUE, "(!) Warning: Missing memory type information")
        ELSE LET ram_ddr == Prefix(Upper(ram_type), 4)
                 mb_ddr  == Prefix(Upper(mb_memory_type), 4)
             IN  IF TruthyStr(ram_ddr) /\ TruthyStr(mb_ddr) /\ ram_ddr = mb_ddr
                 THEN Result(TRUE, "(ok) Compatible: Both use " \o ram_ddr)
                 ELSE IF TruthyStr(ram_ddr) /\ TruthyStr(mb_ddr)
                 THEN Result(FALSE, "(x) Incompatible: RAM is " \o ram_ddr
                                    \o ", motherboard supports " \o mb_ddr)
                 ELSE Result(TRUE, "(!) Warning: Cannot verify memory compatibility")

\* check_gpu_motherboard attaching its note for the form factor "Mini ITX" only.
check_gpu_motherboard_exact(gpu, motherboard) ==
    LET mb_specs    == Get(motherboard, "specs", EmptyDict)
        form_factor == GetOrStr(mb_specs, "form_factor",
                                Get(motherboard, "form_factor", ""))
    IN  IF form_factor = "Mini ITX"
        THEN Result(TRUE, "(ok) Compatible (Note: Mini ITX has 1 PCIe slot)")
        ELSE Result(TRUE, "(ok) Compatible: Motherboard supports PCIe graphics cards")

check_gpu_motherboard(gpu, motherboard) ==
    LET mb_specs    == Get(motherboard, "specs", EmptyDict)
        form_factor == GetOrStr(mb_specs, "form_factor",
                                Get(motherboard, "form_factor", ""))
    IN  IF TruthyStr(form_factor) /\ Contains(form_factor, "Mini ITX")
        THEN Result(TRUE, "(ok) Compatible (Note: Mini ITX has 1 PCIe slot)")
        ELSE Result(TRUE, "(ok) Compatible: Motherboard supports PCIe graphics cards")

\* check_gpu_psu that leaves the CPU out of the total power.
check_gpu_psu_nocpu(gpu, psu, cpu) ==
    LET gpu_specs   == Get(gpu, "specs", EmptyDict)
        psu_specs   == Get(psu, "specs", EmptyDict)
        gpu_tdp     == GetOrNum(gpu_specs, "tdp", Get(gpu, "tdp", DEFAULT_GPU_TDP))
        psu_wattage == GetOrNum(psu_specs, "wattage", Get(psu, "wattage", 0))
        total_power     == gpu_tdp + SYSTEM_OVERHEAD
        recommended_psu == IntTimes125(total_power)
    IN  IF psu_wattage >= recommended_psu
        THEN Result(TRUE, "(ok) Compatible: " \o ToString(psu_wattage)
                          \o "W PSU sufficient for ~" \o ToString(total_power)
                          \o "W system")
        ELSE Result(FALSE, "(x) Insufficient: Need >=" \o ToString(recommended_psu)
                           \o "W PSU, have " \o ToString(psu_wattage) \o "W")

\* cpu is the optional third argument: the dict without keys when not given.
check_gpu_psu(gpu, psu, cpu) ==
    LET gpu_specs   == Get(gpu, "specs", EmptyDict)
        psu_specs   == Get(psu, "specs", EmptyDict)
        gpu_tdp     == GetOrNum(gpu_specs, "tdp", Get(gpu, "tdp", DEFAULT_GPU_TDP))
        psu_wattage == GetOrNum(psu_specs, "wattage", Get(psu, "wattage", 0))
        cpu_tdp     == IF TruthyDict(cpu)
                       THEN GetOrNum(Get(cpu, "specs", EmptyDict), "tdp",
                                     Get(cpu, "tdp", DEFAULT_CPU_TDP))
                       ELSE 0
        total_power     == gpu_tdp + cpu_tdp + SYSTEM_OVERHEAD
        recommended_psu == IntTimes125(total_power)
    IN  IF psu_wattage >= recommended_psu
        THEN Result(TRUE, "(ok) Compatible: " \o ToString(psu_wattage)
                          \o "W PSU sufficient for ~" \o ToString(total_power)
                          \o "W system")
        ELSE Result(FALSE, "(x) Insufficient: Need >=" \o ToString(recommended_psu)
                           \o "W PSU, have " \o ToString(psu_wattage) \o "W")

\* check_cpu_psu demanding strictly more than cpu_tdp + 100.
check_cpu_psu_strict(cpu, psu) ==
    LET cpu_specs    == Get(cpu, "specs", EmptyDict)
        psu_specs    == Get(psu, "specs", EmptyDict)
        cpu_tdp      == GetOrNum(cpu_specs, "tdp", Get(cpu, "tdp", DEFAULT_CPU_TDP))
        psu_wattage  == GetOrNum(psu_specs, "wattage", Get(psu, "wattage", 0))
        min_required == cpu_tdp + CPU_PSU_OVERHEAD
    IN  IF psu_wattage > min_required
        THEN Result(TRUE, "(ok) Compatible: PSU adequate for " \o ToString(cpu_tdp)
                          \o "W CPU")
        ELSE Result(FALSE, "(x) Insufficient: CPU needs >=" \o ToString(min_required)
                           \o "W, PSU is " \o ToString(psu_wattage) \o "W")

check_cpu_psu(cpu, psu) ==
    LET cpu_specs    == Get(cpu, "specs", EmptyDict)
        psu_specs    == Get(psu, "specs", EmptyDict)
        cpu_tdp      == GetOrNum(cpu_specs, "tdp", Get(cpu, "tdp", DEFAULT_CPU_TDP))
        psu_wattage  == GetOrNum(psu_specs, "wattage", Get(psu, "wattage", 0))
        min_required == cpu_tdp + CPU_PSU_OVERHEAD
    IN  IF psu_wattage >= min_required
        THEN Result(TRUE, "(ok) Compatible: PSU adequate for " \o ToString(cpu_tdp)
                          \o "W CPU")
        ELSE Result(FALSE, "(x) Insufficient: CPU needs >=" \o ToString(min_required)
                           \o "W, PSU is " \o ToString(psu_wattage) \o "W")

-----------------------------------------------------------------------------
(* CompatibilityService.check_full_build *)

\* One entry of results["checks"].
Check(name, compatible, message, severity) ==
    [check |-> name, compatible |-> compatible, message |-> message,
     severity |-> severity]

\* The results dict as the function creates it.
NewResults ==
    [compatible |-> TRUE, checks |-> <<>>, warnings |-> <<>>,
     total_power |-> 0, recommended_psu |-> 0]

\* The "CPU-Motherboard" block.
CpuMotherboardStep(results, cpu, motherboard) ==
    IF TruthyDict(cpu) /\ TruthyDict(motherboard)
    THEN LET r == check_cpu_motherboard(cpu, motherboard)
         IN  [results EXCEPT
                !.checks = Append(@, Check("CPU-Motherboard Socket", r.compatible,
                                  r.message,
                                  IF ~r.compatible THEN "error" ELSE "success")),
                !.compatible = IF ~r.compatible THEN FALSE ELSE @]
    ELSE results

\* The "RAM-Motherboard" block.
RamMotherboardStep(results, ram, motherboard) ==
    IF TruthyDict(ram) /\ TruthyDict(motherboard)
    THEN LET r    == check_ram_motherboard(ram, motherboard)
             warn == Contains(r.message, "Warning")
         IN  [results EXCEPT
                !.checks = Append(@, Check("RAM-Motherboard Memory Type",
                                  r.compatible, r.message,
                                  IF ~r.compatible THEN "error"
                                  ELSE IF warn THEN "warning" ELSE "success")),
                !.compatible = IF ~r.compatible /\ ~warn THEN FALSE ELSE @,
                !.warnings = IF ~(~r.compatible /\ ~warn) /\ warn
                             THEN Append(@, r.message) ELSE @]
    ELSE results

\* The "GPU-Motherboard" block running whenever the build has a motherboard.
GpuMotherboardStep_anygpu(results, gpu, motherboard) ==
    IF TruthyDict(motherboard)
    THEN LET r == check_gpu_motherboard(gpu, motherboard)
         IN  [results EXCEPT
                !.checks = Append(@, Check("GPU-Motherboard PCIe", r.compatible,
                                  r.message,
                                  IF r.compatible THEN "info" ELSE "warning")),
                !.warnings = IF Contains(r.message, "Note")
                                \/ Contains(r.message, "Warning")
                             THEN Append(@, r.message) ELSE @]
    ELSE results

\* The "GPU-Motherboard" block keeping its notes out of the warnings.
GpuMotherboardStep_nonote(results, gpu, motherboard) ==
    IF TruthyDict(gpu) /\ TruthyDict(motherboard)
    THEN LET r == check_gpu_motherboard(gpu, motherboard)
         IN  [results EXCEPT
                !.checks = Append(@, Check("GPU-Motherboard PCIe", r.compatible,
                                  r.message,
                                  IF r.compatible THEN "info" ELSE "warning"))]
    ELSE results

\* The "GPU-Motherboard" block.
GpuMotherboardStep(results, gpu, motherboard) ==
    IF TruthyDict(gpu) /\ TruthyDict(motherboard)
    THEN LET r == check_gpu_motherboard(gpu, motherboard)
         IN  [results EXCEPT
                !.checks = Append(@, Check("GPU-Motherboard PCIe", r.compatible,
                                  r.message,
                                  IF r.compatible THEN "info" ELSE "warning")),
                !.warnings = IF Contains(r.message, "Note")
                                \/ Contains(r.message, "Warning")
                             THEN Append(@, r.message) ELSE @]
    ELSE results

\* The "GPU-PSU" block of the PSU power checks.
GpuPsuStep(results, gpu, psu, cpu) ==
    IF TruthyDict(psu) /\ TruthyDict(gpu)
    THEN LET r == check_gpu_psu(gpu, psu, cpu)
         IN  [results EXCEPT
                !.checks = Append(@, Check("PSU Wattage (GPU)", r.compatible,
                                  r.message,
                                  IF ~r.compatible THEN "error" ELSE "success")),
                !.compatible = IF ~r.compatible THEN FALSE ELSE @]
    ELSE results

\* The "CPU-PSU" block recording its check without touching results["compatible"].
CpuPsuStep_noflip(results, cpu, psu) ==
    IF TruthyDict(psu) /\ TruthyDict(cpu)
    THEN LET r == check_cpu_psu(cpu, psu)
         IN  [results EXCEPT
                !.checks = Append(@, Check("PSU Wattage (CPU)", r.compatible,
                                  r.message,
                                  IF ~r.compatible THEN "error" ELSE "success"))]
    ELSE results

\* The "CPU-PSU" block of the PSU power checks.
CpuPsuStep(results, cpu, psu) ==
    IF TruthyDict(psu) /\ TruthyDict(cpu)
    THEN LET r == check_cpu_psu(cpu, psu)
         IN  [results EXCEPT
                !.checks = Append(@, Check("PSU Wattage (CPU)", r.compatible,
                                  r.message,
                                  IF ~r.compatible THEN "error" ELSE "success")),
                !.compatible = IF ~r.compatible THEN FALSE ELSE @]
    ELSE results

\* The TDP a role adds to results["total_power"]: 0 for an absent role and
\* for a component without a TDP.
BuildTdp(component) ==
    IF TruthyDict(component)
    THEN GetOrNum(Get(component, "specs", EmptyDict), "tdp", Get(component, "tdp", 0))
    ELSE 0

\* The "Calculate total power" block.
TotalPowerStep(results, cpu, gpu) ==
    LET total_power == BuildTdp(cpu) + BuildTdp(gpu) + SYSTEM_OVERHEAD
    IN  [results EXCEPT !.total_power = total_power,
                        !.recommended_psu = IntTimes125(total_power)]

\* build.get(role): None, carried as the dict without keys, for an absent role.
check_full_build(build) ==
    LET cpu         == Get(build, "cpu", EmptyDict)
        motherboard == Get(build, "motherboard", EmptyDict)
        gpu         == Get(build, "gpu", EmptyDict)
        psu         == Get(build, "psu", EmptyDict)
        ram         == Get(build, "ram", EmptyDict)
        r1 == CpuMotherboardStep(NewResults, cpu, motherboard)
        r2 == RamMotherboardStep(r1, ram, motherboard)
        r3 == GpuMotherboardStep(r2, gpu, motherboard)
        r4 == GpuPsuStep(r3, gpu, psu, cpu)
        r5 == CpuPsuStep(r4, cpu, psu)
    IN  TotalPowerStep(r5, cpu, gpu)

-----------------------------------------------------------------------------
(* The component records the calls are made with *)

\* The dicts that either lack key k or map it to one of Vals.
OptField(k, Vals) == {EmptyDict} \cup {[j \in {k} |-> v] : v \in Vals}

\* True when the component has no other keys than these, in specs and on top.
OnlyKeys(component, Keys) ==
    /\ DOMAIN component \subseteq (Keys \cup {"specs"})
    /\ DOMAIN Get(component, "specs", EmptyDict) \subseteq Keys

MinWattage == 160
MaxWattage == 720

SocketValues     == {"AM5", "am5", "LGA1700", ""}
TopSocketValues  == {"AM5"}
CpuTdpValues     == {0, 65, 125}
TopCpuTdpValues  == {95}
GpuTdpValues     == {0, 300}
TopGpuTdpValues  == {250}
WattageValues    == {0} \cup (MinWattage..MaxWattage)
TopWattageValues == {650}
MemoryTypeValues == {"DDR4", "ddr5-5600", "DDR", ""}
RamTypeValues    == {"DDR4-3200", "DDR5", "ddr", ""}
TopRamTypeValues == {"Memory", "DDR4"}
FormFactorValues == {"Mini ITX", "Thin Mini ITX", "ATX"}

CPUs ==
    {s @@ a @@ b :
        s \in OptField("specs", {x @@ y : x \in OptField("socket", SocketValues),
                                         y \in OptField("tdp", CpuTdpValues)}),
        a \in OptField("socket", TopSocketValues),
        b \in OptField("tdp", TopCpuTdpValues)}

Motherboards ==
    {s @@ a :
        s \in OptField("specs",
                 {x @@ y @@ z : x \in OptField("socket", SocketValues),
                                y \in OptField("memory_type", MemoryTypeValues),
                                z \in OptField("form_factor", FormFactorValues)}),
        a \in OptField("socket", TopSocketValues)
              \cup OptField("memory_type", MemoryTypeValues)
              \cup OptField("form_factor", FormFactorValues)}

GPUs ==
    {s @@ a :
        s \in OptField("specs", OptField("tdp", GpuTdpValues)),
        a \in OptField("tdp", TopGpuTdpValues)}

PSUs ==
    {[specs |-> x] : x \in OptField("wattage", WattageValues)}
    \cup
    {s @@ a :
        s \in OptField("specs", OptField("wattage", {0, MaxWattage})),
        a \in OptField("wattage", TopWattageValues)}

RAMs ==
    {s @@ a :
        s \in OptField("specs", OptField("type", RamTypeValues)),
        a \in OptField("type", TopRamTypeValues)}

\* The builds: each role is absent or holds a record as the catalog indexes
\* it, with its fields under specs.
BuildWattageValues == {160, 220, 230, 520, 720}

BuildCPUs ==
    {[specs |-> x @@ y] : x \in OptField("socket", {"AM5", "LGA1700"}),
                          y \in OptField("tdp", {65})} \cup {EmptyDict}

BuildMotherboards ==
    {[specs |-> x @@ y @@ z] : x \in OptField("socket", {"AM5"}),
                               y \in OptField("memory_type", {"DDR4"}),
                               z \in OptField("form_factor", {"Mini ITX"})}

BuildGPUs == {[specs |-> x] : x \in OptField("tdp", {20, 300})}

BuildPSUs == {[specs |-> x] : x \in OptField("wattage", BuildWattageValues)}

BuildRAMs == {[specs |-> x] : x \in OptField("type", {"DDR4-3200", "DDR5"})}

Builds ==
    {c @@ m @@ g @@ p @@ r :
        c \in OptField("cpu", BuildCPUs),
        m \in OptField("motherboard", BuildMotherboards),
        g \in OptField("gpu", BuildGPUs),
        p \in OptField("psu", BuildPSUs),
        r \in OptField("ram", BuildRAMs)}

-----------------------------------------------------------------------------
(* The calls *)

\* The response of a call that has not returned yet.
Pending == [pending |-> TRUE]

\* _caches as the module creates it: four stores without entries.
NewCaches ==
    [search |-> EmptyDict, components |-> EmptyDict, facets |-> EmptyDict,
     suggestions |-> EmptyDict]

CompatibilityRequests ==
    {[op |-> "check_cpu_motherboard", cpu |-> c, motherboard |-> m] :
        c \in {x \in CPUs : OnlyKeys(x, {"socket"})},
        m \in {x \in Motherboards : OnlyKeys(x, {"socket"})}}
    \cup
    {[op |-> "check_ram_motherboard", ram |-> r, motherboard |-> m] :
        r \in RAMs,
        m \in {x \in Motherboards : OnlyKeys(x, {"memory_type"})}}
    \cup
    {[op |-> "check_gpu_motherboard", gpu |-> g, motherboard |-> m] :
        g \in {x \in GPUs : OnlyKeys(x, {})},
        m \in {x \in Motherboards : OnlyKeys(x, {"form_factor"})}}
    \cup
    {[op |-> "check_gpu_psu", gpu |-> g, psu |-> p, cpu |-> c] :
        g \in GPUs,
        p \in PSUs,
        c \in {x \in CPUs : OnlyKeys(x, {"tdp"})}}
    \cup
    {[op |-> "check_cpu_psu", cpu |-> c, psu |-> p] :
        c \in {x \in CPUs : OnlyKeys(x, {"tdp"})},
        p \in PSUs}
    \cup
    {[op |-> "check_full_build", build |-> b] : b \in Builds}

CheckCpuMotherboard ==
    /\ request.op = "check_cpu_motherboard"
    /\ response = Pending
    /\ response' = check_cpu_motherboard(request.cpu, request.motherboard)
    /\ UNCHANGED <<request, records, caches, history>>

CheckRamMotherboard ==
    /\ request.op = "check_ram_motherboard"
    /\ response = Pending
    /\ response' = check_ram_motherboard(request.ram, request.motherboard)
    /\ UNCHANGED <<request, records, caches, history>>

CheckGpuMotherboard ==
    /\ request.op = "check_gpu_motherboard"
    /\ response = Pending
    /\ response' = check_gpu_motherboard(request.gpu, request.motherboard)
    /\ UNCHANGED <<request, records, caches, history>>

CheckGpuPsu ==
    /\ request.op = "check_gpu_psu"
    /\ response = Pending
    /\ response' = check_gpu_psu(request.gpu, request.psu, request.cpu)
    /\ UNCHANGED <<request, records, caches, history>>

CheckCpuPsu ==
    /\ request.op = "check_cpu_psu"
    /\ response = Pending
    /\ response' = check_cpu_psu(request.cpu, request.psu)
    /\ UNCHANGED <<request, records, caches, history>>

CheckFullBuild ==
    /\ request.op = "check_full_build"
    /\ response = Pending
    /\ response' = check_full_build(request.build)
    /\ UNCHANGED <<request, records, caches, history>>

\* The checkers are handed their records as arguments; no record comes from
\* the catalog, no cache is used and nothing is logged.
CompatInit ==
    /\ request \in CompatibilityRequests
    /\ response = Pending
    /\ records = <<>>
    /\ caches = NewCaches
    /\ history = <<>>

CompatNext ==
    \/ CheckCpuMotherboard
    \/ CheckRamMotherboard
    \/ CheckGpuMotherboard
    \/ CheckGpuPsu
    \/ CheckCpuPsu
    \/ CheckFullBuild

CompatSpec == CompatInit /\ [][CompatNext]_vars

-----------------------------------------------------------------------------
(* ComponentScorer *)

(* A Python float is carried as an exact fraction <<numerator, denominator>>  *)
(* in lowest terms with a positive denominator.  In a component record the   *)
(* price is a whole number and the average rating is in tenths of a star     *)
(* (45 is 4.5 stars).                                                        *)

RECURSIVE Gcd(_, _)
Gcd(a, b) == IF b = 0 THEN a ELSE Gcd(b, a % b)

Abs(x) == IF x < 0 THEN -x ELSE x

\* The fraction n/d, d > 0, in lowest terms.
Frac(n, d) == LET g == Gcd(Abs(n), d) IN <<n \div g, d \div g>>

FracLe(a, b)  == a[1] * b[2] <= b[1] * a[2]
FracAdd(a, b) == Frac(a[1] * b[2] + b[1] * a[2], a[2] * b[2])
FracMul(a, b) == Frac(a[1] * b[1], a[2] * b[2])
FracMin(a, b) == IF FracLe(a, b) THEN a ELSE b
FracMax(a, b) == IF FracLe(a, b) THEN b ELSE a

\* The average rating of a record, in stars.
Stars(tenths) == Frac(tenths, 10)

tier_order == <<"budget", "mid-range", "high-end">>

\* True when list.index(x) raises ValueError.
NotInList(list, x) == \A i \in 1..Len(list) : list[i] # x

\* list.index(x), counted from 1.
IndexOf(list, x) == CHOOSE i \in 1..Len(list) : list[i] = x

\* calculate_tier_match_score taking the difference of the indices without abs().
calculate_tier_match_score_noabs(component, target_tier) ==
    LET comp_tier == Get(component, "performance_tier", "mid-range")
    IN  IF NotInList(tier_order, comp_tier) \/ NotInList(tier_order, target_tier)
        THEN 50
        ELSE LET diff == IndexOf(tier_order, comp_tier)
                         - IndexOf(tier_order, target_tier)
             IN  IF diff = 0 THEN 100 ELSE IF diff = 1 THEN 70 ELSE 40

calculate_tier_match_score(component, target_tier) ==
    LET comp_tier == Get(component, "performance_tier", "mid-range")
    IN  IF NotInList(tier_order, comp_tier) \/ NotInList(tier_order, target_tier)
        THEN 50
        ELSE LET diff == Abs(IndexOf(tier_order, comp_tier)
                             - IndexOf(tier_order, target_tier))
             IN  IF diff = 0 THEN 100 ELSE IF diff = 1 THEN 70 ELSE 40

\* The rating of a record is a dict or is missing; the isinstance test of the
\* code sends every other value to the same 0, 0 as a dict without keys.
calculate_popularity_score(component) ==
    LET rating        == Get(component, "rating", EmptyDict)
        avg_rating0   == Get(rating, "average", 0)
        review_count0 == Get(rating, "count", 0)
        avg_rating    == IF avg_rating0 = 0
                         THEN Get(component, "average_rating", 0) ELSE avg_rating0
        review_count  == IF review_count0 = 0
                         THEN Get(component, "review_count", 0) ELSE review_count0
        rating_score  == IF avg_rating # 0
                         THEN FracMul(FracMul(Stars(avg_rating), Frac(1, 5)),
                                      Frac(100, 1))
                         ELSE Frac(50, 1)
        review_bonus  == FracMin(Frac(20, 1),
                                 FracMul(Frac(review_count, 50), Frac(20, 1)))
    IN  FracMin(Frac(100, 1),
                FracAdd(FracMul(rating_score, Frac(8, 10)), review_bonus))

\* None as the value of a numeric key (a price or a core count the indexer
\* could not parse).
NoneNum == -1

\* TIER_THRESHOLDS.get(component_type, {'high': 500, 'mid': 200})
TierThresholds(component_type) ==
    CASE component_type = "CPU"                 -> [high |-> 400, mid |-> 200]
      [] component_type = "GPU"                 -> [high |-> 800, mid |-> 400]
      [] component_type = "Motherboard"         -> [high |-> 300, mid |-> 150]
      [] component_type = "Memory"              -> [high |-> 150, mid |-> 80]
      [] component_type = "Power Supply"        -> [high |-> 150, mid |-> 80]
      [] component_type = "Internal Hard Drive" -> [high |-> 200, mid |-> 100]
      [] OTHER                                  -> [high |-> 500, mid |-> 200]

\* expected_ranges.get(tier, (0, 500))
ExpectedPriceRange(thresholds, tier) ==
    CASE tier = "budget"    -> <<0, thresholds.mid>>
      [] tier = "mid-range" -> <<thresholds.mid, thresholds.high>>
      [] tier = "high-end"  -> <<thresholds.high, thresholds.high * 2>>
      [] OTHER              -> <<0, 500>>

\* price <= 0 raises TypeError when the price is None.
calculate_value_score_raises(component) == Get(component, "price", 0) = NoneNum

\* calculate_value_score without the floor of 30 for a price above the middle.
calculate_value_score_nofloor(component, component_type) ==
    LET price == Get(component, "price", 0)
    IN  IF price <= 0 THEN Frac(50, 1)
        ELSE
        LET thresholds   == TierThresholds(component_type)
            tier         == Get(component, "performance_tier", "mid-range")
            range        == ExpectedPriceRange(thresholds, tier)
            expected_mid == Frac(range[1] + range[2], 2)
            divisor      == FracMax(expected_mid, Frac(1, 1))
            ratio        == FracMul(Frac(price, 1), <<divisor[2], divisor[1]>>)
        IN  IF FracLe(Frac(price, 1), expected_mid)
            THEN FracMin(Frac(100, 1),
                         FracAdd(Frac(70, 1),
                                 FracMul(Frac(30, 1),
                                         FracAdd(Frac(1, 1), FracMul(Frac(-1, 1), ratio)))))
            ELSE LET overage_ratio ==
                         FracMul(FracAdd(Frac(price, 1), FracMul(Frac(-1, 1), expected_mid)),
                                 <<divisor[2], divisor[1]>>)
                 IN  FracAdd(Frac(100, 1), FracMul(Frac(-50, 1), overage_ratio))

calculate_value_score(component, component_type) ==
    LET price == Get(component, "price", 0)
    IN  IF price <= 0 THEN Frac(50, 1)
        ELSE
        LET thresholds   == TierThresholds(component_type)
            tier         == Get(component, "performance_tier", "mid-range")
            range        == ExpectedPriceRange(thresholds, tier)
            expected_mid == Frac(range[1] + range[2], 2)
            divisor      == FracMax(expected_mid, Frac(1, 1))
            ratio        == FracMul(Frac(price, 1), <<divisor[2], divisor[1]>>)
        IN  IF FracLe(Frac(price, 1), expected_mid)
            THEN FracMin(Frac(100, 1),
                         FracAdd(Frac(70, 1),
                                 FracMul(Frac(30, 1),
                                         FracAdd(Frac(1, 1), FracMul(Frac(-1, 1), ratio)))))
            ELSE LET overage_ratio ==
                         FracMul(FracAdd(Frac(price, 1), FracMul(Frac(-1, 1), expected_mid)),
                                 <<divisor[2], divisor[1]>>)
                 IN  FracMax(Frac(30, 1),
                             FracAdd(Frac(100, 1),
                                     FracMul(Frac(-50, 1), overage_ratio)))

\* expected_tdp.get(tier, (65, 125))
ExpectedTdpRange(tier) ==
    CASE tier = "budget"    -> <<35, 65>>
      [] tier = "mid-range" -> <<65, 125>>
      [] tier = "high-end"  -> <<125, 250>>
      [] OTHER              -> <<65, 125>>

\* calculate_power_efficiency_score falling from 100 to 50 inside the band.
calculate_power_efficiency_score_steep(component) ==
    LET specs == Get(component, "specs", EmptyDict)
        tdp   == GetOrNum(specs, "tdp", Get(component, "tdp", 0))
        tier  == Get(component, "performance_tier", "mid-range")
        range == ExpectedTdpRange(tier)
        expected_min == range[1]
        expected_max == range[2]
    IN  IF tdp = 0 THEN Frac(50, 1)
        ELSE IF tdp <= expected_min THEN Frac(100, 1)
        ELSE IF tdp <= expected_max
        THEN LET ratio == Frac(tdp - expected_min, expected_max - expected_min)
             IN  FracAdd(Frac(100, 1), FracMul(Frac(-50, 1), ratio))
        ELSE LET overage == Frac(tdp - expected_max, expected_max)
             IN  FracMax(Frac(20, 1),
                         FracAdd(Frac(60, 1), FracMul(Frac(-40, 1), overage)))

calculate_power_efficiency_score(component) ==
    LET specs == Get(component, "specs", EmptyDict)
        tdp   == GetOrNum(specs, "tdp", Get(component, "tdp", 0))
        tier  == Get(component, "performance_tier", "mid-range")
        range == ExpectedTdpRange(tier)
        expected_min == range[1]
        expected_max == range[2]
    IN  IF tdp = 0 THEN Frac(50, 1)
        ELSE IF tdp <= expected_min THEN Frac(100, 1)
        ELSE IF tdp <= expected_max
        THEN LET ratio == Frac(tdp - expected_min, expected_max - expected_min)
             IN  FracAdd(Frac(100, 1), FracMul(Frac(-40, 1), ratio))
        ELSE LET overage == Frac(tdp - expected_max, expected_max)
             IN  FracMax(Frac(20, 1),
                         FracAdd(Frac(60, 1), FracMul(Frac(-40, 1), overage)))

LowerChar(c) ==
    IF \E i \in 1..Len(UpperLetters) : SubSeq(UpperLetters, i, i) = c
    THEN LET i == CHOOSE j \in 1..Len(UpperLetters) : SubSeq(UpperLetters, j, j) = c
         IN  SubSeq(LowerLetters, i, i)
    ELSE c

\* s.lower()
RECURSIVE Lower(_)
Lower(s) ==
    IF Len(s) = 0 THEN ""
    ELSE LowerChar(SubSeq(s, 1, 1)) \o Lower(SubSeq(s, 2, Len(s)))

Digits == "0123456789"

\* The character s[i], counted from 1; "" past the end.
CharAt(s, i) == IF i >= 1 /\ i <= Len(s) THEN SubSeq(s, i, i) ELSE ""

\* \d
IsDigit(c) == \E i \in 1..Len(Digits) : SubSeq(Digits, i, i) = c

DigitValue(c) == (CHOOSE i \in 1..Len(Digits) : SubSeq(Digits, i, i) = c) - 1

\* int(s) of a string of digits.
RECURSIVE StrToInt(_)
StrToInt(s) ==
    IF Len(s) = 0 THEN 0
    ELSE 10 * StrToInt(SubSeq(s, 1, Len(s) - 1)) + DigitValue(SubSeq(s, Len(s), Len(s)))

\* The last index of the run of digits that starts at i.
RECURSIVE DigitRunEnd(_, _)
DigitRunEnd(s, i) == IF IsDigit(CharAt(s, i + 1)) THEN DigitRunEnd(s, i + 1) ELSE i

\* The first index at or after i that holds no blank (\s*).
RECURSIVE SkipBlanks(_, _)
SkipBlanks(s, i) == IF CharAt(s, i) = " " THEN SkipBlanks(s, i + 1) ELSE i

\* True when (\d+)\s*gb matches at index i of s.
VramMatchAt(s, i) ==
    /\ IsDigit(CharAt(s, i))
    /\ LET j == SkipBlanks(s, DigitRunEnd(s, i) + 1)
       IN  CharAt(s, j) = "g" /\ CharAt(s, j + 1) = "b"

\* re.search(r'(\d+)\s*gb', name): the number captured by the leftmost
\* match, -1 when there is no match.
VramGb(name) ==
    IF \E i \in 1..Len(name) : VramMatchAt(name, i)
    THEN LET i == CHOOSE j \in 1..Len(name) :
                      /\ VramMatchAt(name, j)
                      /\ \A k \in 1..(j - 1) : ~VramMatchAt(name, k)
         IN  StrToInt(SubSeq(name, i, DigitRunEnd(name, i)))
    ELSE -1

\* True when (\d{4,5}) matches at index i of s.
SpeedMatchAt(s, i) == \A k \in 0..3 : IsDigit(CharAt(s, i + k))

\* re.search(r'(\d{4,5})', name): the number captured by the leftmost match,
\* -1 when there is no match.
MemorySpeed(name) ==
    IF \E i \in 1..Len(name) : SpeedMatchAt(name, i)
    THEN LET i == CHOOSE j \in 1..Len(name) :
                      /\ SpeedMatchAt(name, j)
                      /\ \A k \in 1..(j - 1) : ~SpeedMatchAt(name, k)
         IN  StrToInt(SubSeq(name, i, IF IsDigit(CharAt(name, i + 4))
                                      THEN i + 4 ELSE i + 3))
    ELSE -1

\* any(x in name for x in tokens)
ContainsAny(name, tokens) == \E t \in tokens : Contains(name, t)

\* The calls that raise: name.lower() on None, cores >= 16 on None,
\* mem_type.upper() on None.
calculate_future_proof_score_raises(component, component_type) ==
    \/ Get(component, "name", "") = None
    \/ /\ component_type = "CPU"
       /\ Get(Get(component, "specs", EmptyDict), "core_count", 0) = NoneNum
    \/ /\ component_type = "Motherboard"
       /\ Get(Get(component, "specs", EmptyDict), "memory_type", "") = None

\* The exception of a call that raises: AttributeError from None.lower() and
\* None.upper(), TypeError from None >= 16.
calculate_future_proof_score_error(component, component_type) ==
    IF Get(component, "name", "") = None THEN "AttributeError"
    ELSE IF component_type = "CPU" THEN "TypeError"
    ELSE "AttributeError"

FutureProofGpu(name) ==
    LET vram == VramGb(name)
    IN  (IF vram >= 16 THEN 30 ELSE IF vram >= 12 THEN 20
         ELSE IF vram >= 8 THEN 10 ELSE 0)
        + (IF ContainsAny(name, {"4090", "4080", "4070", "7900", "7800"}) THEN 20
           ELSE IF ContainsAny(name, {"3080", "3070", "6800", "6900"}) THEN 10
           ELSE 0)

FutureProofCpu(component, specs) ==
    LET cores  == Get(specs, "core_count", 0)
        socket == GetOrStr(specs, "socket", Get(component, "socket", ""))
    IN  (IF cores >= 16 THEN 25 ELSE IF cores >= 12 THEN 20
         ELSE IF cores >= 8 THEN 15 ELSE IF cores >= 6 THEN 10 ELSE 0)
        + (IF socket \in {"AM5", "LGA1700"} THEN 15
           ELSE IF socket \in {"AM4", "LGA1200"} THEN 5 ELSE 0)

FutureProofMotherboard(name, specs) ==
    (IF Contains(Upper(Get(specs, "memory_type", "")), "DDR5") THEN 20 ELSE 0)
    + (IF Contains(name, "pcie 5") \/ Contains(name, "pcie5") THEN 15 ELSE 0)

FutureProofMemory(name) ==
    LET speed == MemorySpeed(name)
    IN  (IF Contains(name, "ddr5") THEN 25 ELSE 0)
        + (IF speed >= 6000 THEN 15 ELSE IF speed >= 5200 THEN 10 ELSE 0)

calculate_future_proof_score(component, component_type) ==
    LET specs == Get(component, "specs", EmptyDict)
        name  == Lower(Get(component, "name", ""))
        score == 50 + (CASE component_type = "GPU" -> FutureProofGpu(name)
                         [] component_type = "CPU" -> FutureProofCpu(component, specs)
                         [] component_type = "Motherboard" ->
                                FutureProofMotherboard(name, specs)
                         [] component_type = "Memory" -> FutureProofMemory(name)
                         [] OTHER -> 0)
    IN  IF score > 100 THEN 100 ELSE score

\* WEIGHTS, in hundredths.
WEIGHTS ==
    [tier_match |-> 25, value_score |-> 25, popularity |-> 20,
     power_efficiency |-> 15, future_proof |-> 15]

ScoreKeys == <<"tier_match", "value_score", "popularity", "power_efficiency",
               "future_proof">>

\* round(x, 1): the nearest tenth.  The code rounds a binary float, so a sum
\* that is exactly halfway between two tenths goes where its float error puts
\* it; here such a tie goes to the even tenth, and the catalog and the hits
\* below hold no record whose total is such a tie.
Round1(x) ==
    LET n     == 10 * x[1]
        floor == n \div x[2]
        rest  == n % x[2]
    IN  IF 2 * rest < x[2] THEN Frac(floor, 10)
        ELSE IF 2 * rest > x[2] THEN Frac(floor + 1, 10)
        ELSE IF floor % 2 = 0 THEN Frac(floor, 10) ELSE Frac(floor + 1, 10)

RECURSIVE WeightedSum_mean(_, _)
\* The sum of the first n scores with the same weight for each.
WeightedSum_mean(scores, n) ==
    IF n = 0 THEN Frac(0, 1)
    ELSE FracAdd(WeightedSum_mean(scores, n - 1),
                 FracMul(scores[ScoreKeys[n]], Frac(20, 100)))

RECURSIVE WeightedSum(_, _)
\* sum(scores[key] * WEIGHTS[key] for key in scores), over the first n keys.
WeightedSum(scores, n) ==
    IF n = 0 THEN Frac(0, 1)
    ELSE FracAdd(WeightedSum(scores, n - 1),
                 FracMul(scores[ScoreKeys[n]], Frac(WEIGHTS[ScoreKeys[n]], 100)))

calculate_total_score_raises(component, component_type) ==
    \/ calculate_value_score_raises(component)
    \/ calculate_future_proof_score_raises(component, component_type)

\* The exception of a call that raises: the value score is computed before
\* the future-proof score.
calculate_total_score_error(component, component_type) ==
    IF calculate_value_score_raises(component) THEN "TypeError"
    ELSE calculate_future_proof_score_error(component, component_type)

\* The rounded total and the rounded breakdown of the five scores.
RoundedScores(scores) ==
    [total |-> Round1(WeightedSum(scores, Len(ScoreKeys))),
     breakdown |-> [k \in DOMAIN scores |-> Round1(scores[k])]]

\* calculate_total_score returning the score a ranking has written into the
\* record, when there is one.
calculate_total_score_memo(component, component_type, target_tier) ==
    IF "recommendation_score" \in DOMAIN component
    THEN [total |-> component.recommendation_score,
          breakdown |-> component.score_breakdown]
    ELSE RoundedScores(
        [tier_match |-> Frac(calculate_tier_match_score(component, target_tier), 1),
         value_score |-> calculate_value_score(component, component_type),
         popularity |-> calculate_popularity_score(component),
         power_efficiency |-> calculate_power_efficiency_score(component),
         future_proof |->
             Frac(calculate_future_proof_score(component, component_type), 1)])

calculate_total_score(component, component_type, target_tier) ==
    RoundedScores(
        [tier_match |-> Frac(calculate_tier_match_score(component, target_tier), 1),
         value_score |-> calculate_value_score(component, component_type),
         popularity |-> calculate_popularity_score(component),
         power_efficiency |-> calculate_power_efficiency_score(component),
         future_proof |->
             Frac(calculate_future_proof_score(component, component_type), 1)])

-----------------------------------------------------------------------------
(* Ranking: SuggestionService.suggest_cpus and the batch-score route *)

\* items[:n]
Take(items, n) == SubSeq(items, 1, IF Len(items) < n THEN Len(items) ELSE n)

\* The sorted list with item put behind every entry whose key is not lower.
RECURSIVE InsertByScore(_, _, _)
InsertByScore(sorted, item, key) ==
    IF Len(sorted) = 0 THEN <<item>>
    ELSE IF FracLe(item[key], Head(sorted)[key])
    THEN <<Head(sorted)>> \o InsertByScore(Tail(sorted), item, key)
    ELSE <<item>> \o sorted

\* items.sort(key=lambda x: x[key], reverse=True): highest key first; the sort
\* is stable, entries with equal keys keep the order they came in.
RECURSIVE SortByScore(_, _)
SortByScore(items, key) ==
    IF Len(items) = 0 THEN <<>>
    ELSE InsertByScore(SortByScore(SubSeq(items, 1, Len(items) - 1), key),
                       items[Len(items)], key)

\* The target tier suggest_cpus derives from budget and use case; a budget of
\* 0 stands for no budget, "" for no use case.
CpuTargetTier(budget, use_case) ==
    IF use_case = "workstation" THEN "high-end"
    ELSE IF budget # 0 /\ budget >= 400 THEN "high-end"
    ELSE IF budget # 0 /\ budget < 200 THEN "budget"
    ELSE "mid-range"

\* A hit with its score written into it.
WithScore(hit, scores) ==
    [recommendation_score |-> scores.total,
     score_breakdown |-> scores.breakdown] @@ hit

\* The loop of suggest_cpus: each hit with its score written into it.
ScoredCpus(hits, target_tier) ==
    [i \in 1..Len(hits) |->
        WithScore(hits[i], calculate_total_score(hits[i], "CPU", target_tier))]

\* The first hit whose scoring raises.
FirstRaising(hits) ==
    CHOOSE i \in 1..Len(hits) :
        /\ calculate_total_score_raises(hits[i], "CPU")
        /\ \A k \in 1..(i - 1) : ~calculate_total_score_raises(hits[k], "CPU")

\* The hits after the loop of suggest_cpus: the loop writes the score into
\* the record the search returned, and stops at the first hit whose scoring
\* raises.
ScoredInPlace(hits, target_tier) ==
    [i \in 1..Len(hits) |->
        IF \E k \in 1..i : calculate_total_score_raises(hits[k], "CPU")
        THEN hits[i]
        ELSE WithScore(hits[i], calculate_total_score(hits[i], "CPU", target_tier))]

\* suggest_cpus; hits is what algolia_service.search_by_type returned.
suggest_cpus(budget, use_case, limit, hits) ==
    IF \E i \in 1..Len(hits) : calculate_total_score_raises(hits[i], "CPU")
    THEN [raised |-> calculate_total_score_error(hits[FirstRaising(hits)], "CPU")]
    ELSE [returned |->
            Take(SortByScore(ScoredCpus(hits, CpuTargetTier(budget, use_case)),
                             "recommendation_score"), limit)]

\* The rating and the description; the emoji of the code is left out.
_interpret_score(score) ==
    IF FracLe(Frac(80, 1), score)
    THEN [rating |-> "Excellent", description |-> "Highly recommended for this tier"]
    ELSE IF FracLe(Frac(60, 1), score)
    THEN [rating |-> "Good", description |-> "Solid choice with good value"]
    ELSE IF FracLe(Frac(40, 1), score)
    THEN [rating |-> "Average", description |-> "Acceptable but better options exist"]
    ELSE [rating |-> "Poor", description |-> "Not recommended for this tier"]

MAX_BATCH == 10

\* The entry batch_score_components builds for one component out of its scores.
ScoredEntry(comp_id, component, component_type, scores) ==
    [id |-> comp_id,
     name |-> Get(component, "name", None),
     type |-> component_type,
     price |-> Get(component, "price", NoneNum),
     total_score |-> scores.total,
     breakdown |-> scores.breakdown,
     interpretation |-> _interpret_score(scores.total)]

TypedEntry(comp_id, component, component_type, target_tier) ==
    ScoredEntry(comp_id, component, component_type,
                calculate_total_score(component, component_type, target_tier))

BatchEntry(comp_id, component, target_tier) ==
    TypedEntry(comp_id, component, Get(component, "type", "Unknown"), target_tier)

\* The results list before it is sorted: one entry per ID the catalog resolves.
RECURSIVE BatchEntries(_, _, _)
BatchEntries(component_ids, catalog, target_tier) ==
    IF Len(component_ids) = 0 THEN <<>>
    ELSE LET comp_id == component_ids[Len(component_ids)]
             rest    == BatchEntries(SubSeq(component_ids, 1, Len(component_ids) - 1),
                                     catalog, target_tier)
         IN  IF comp_id \in DOMAIN catalog /\ TruthyDict(catalog[comp_id])
             THEN Append(rest, BatchEntry(comp_id, catalog[comp_id], target_tier))
             ELSE rest

\* The data of a batch-score response: the sorted results, their count and
\* the first of them, if any.
BatchData(target_tier, results) ==
    [target_tier |-> target_tier,
     components |-> results,
     count |-> Len(results),
     best_pick |-> IF Len(results) > 0 THEN <<results[1]>> ELSE <<>>]

\* batch_score_components; catalog is what algolia_service.get_component_by_id
\* resolves.  The meta part of the response envelope (request ID, timestamp,
\* processing time) is left out.
batch_score_components(component_ids, target_tier, catalog) ==
    IF Len(component_ids) > MAX_BATCH \/ Len(component_ids) = 0
    THEN [raised |-> "ValidationException"]
    ELSE IF \E i \in 1..Len(component_ids) :
               /\ component_ids[i] \in DOMAIN catalog
               /\ TruthyDict(catalog[component_ids[i]])
               /\ calculate_total_score_raises(catalog[component_ids[i]],
                      Get(catalog[component_ids[i]], "type", "Unknown"))
    THEN [raised |-> "AlgoliaException"]
    ELSE [success |-> TRUE,
          data |-> BatchData(target_tier,
                             SortByScore(BatchEntries(component_ids, catalog, target_tier),
                                         "total_score"))]

-----------------------------------------------------------------------------
(* The scoring and ranking calls *)

MaxHits == 3
MaxIds  == 3

TierValues   == {"budget", "mid-range", "high-end", "enthusiast", None}
TargetTiers  == {"budget", "mid-range", "high-end", "ultra"}
TypeValues   == {"CPU", "GPU", "Motherboard", "Memory", "Power Supply",
                 "Internal Hard Drive", "Case"}
PriceValues  == {NoneNum, 0, 40, 99, 100, 250, 299, 300, 301, 750, 900}
ScoreTdpValues == {0, 35, 65, 95, 125, 170, 250, 450}

\* The rating records: average in tenths of a star, count of reviews.
RatingValues ==
    {a @@ c : a \in OptField("average", {0, 35, 50}),
              c \in OptField("count", {0, 10, 50, 100000})}

\* Records with the keys calculate_popularity_score reads.
RatedComponents ==
    {r @@ a @@ c : r \in OptField("rating", RatingValues),
                   a \in OptField("average_rating", {40}),
                   c \in OptField("review_count", {25})}

\* Records with the keys calculate_value_score reads.
PricedComponents ==
    {p @@ t : p \in OptField("price", PriceValues),
              t \in OptField("performance_tier", TierValues)}

\* Records with the keys calculate_power_efficiency_score reads.
PoweredComponents ==
    {s @@ a @@ t :
        s \in OptField("specs", OptField("tdp", ScoreTdpValues)),
        a \in OptField("tdp", {95}),
        t \in OptField("performance_tier", TierValues)}

\* Records with the keys calculate_future_proof_score reads, by type.
GpuNames == {"GeForce RTX 4090 24GB", "Radeon RX 6800 XT 16 GB", "RTX 3070 8GB",
             "GTX 1650 4 GB", "Arc A770", "RX 7800 XT 12gb"}
MemoryNames == {"Vengeance DDR5-6000 32 GB", "Ripjaws V DDR4-3600",
                "Fury Beast ddr5 5200", "ValueRAM 8GB", "Trident 128000"}
MotherboardNames == {"B650 AORUS ELITE", "Z790 PCIe 5.0 WIFI", "X670E PCIE5"}

FutureProofComponents ==
    {[type |-> "GPU"] @@ n : n \in OptField("name", GpuNames \cup {None})}
    \cup
    {[type |-> "Memory"] @@ n : n \in OptField("name", MemoryNames)}
    \cup
    {[type |-> "Motherboard"] @@ n @@ s :
        n \in OptField("name", MotherboardNames),
        s \in OptField("specs", OptField("memory_type", {"DDR5", "ddr5", "DDR4", None}))}
    \cup
    {[type |-> "CPU"] @@ s @@ a :
        s \in OptField("specs",
                 {c @@ k : c \in OptField("core_count", {NoneNum, 4, 6, 8, 12, 16}),
                           k \in OptField("socket", {"AM5", "AM4", "LGA1151", ""})}),
        a \in OptField("socket", {"LGA1200"})}
    \cup
    {[type |-> "Case"] @@ n : n \in OptField("name", {"H510 Flow"})}

\* The catalog get_component_by_id reads, whole records by ID; an ID outside
\* the catalog is not found.
Catalog ==
    [c1 |-> [type |-> "CPU", name |-> "Ryzen 5 7600X", price |-> 299,
             specs |-> [socket |-> "AM5", core_count |-> 6, tdp |-> 105],
             performance_tier |-> "mid-range",
             rating |-> [average |-> 45, count |-> 30]],
     c2 |-> [type |-> "CPU", name |-> "Core i5-13600K", price |-> 250,
             specs |-> [socket |-> "LGA1700", core_count |-> 6, tdp |-> 105],
             performance_tier |-> "mid-range",
             rating |-> [average |-> 45, count |-> 30]],
     c3 |-> [type |-> "CPU", name |-> "Ryzen 9 7950X", price |-> NoneNum,
             specs |-> [socket |-> "AM5", core_count |-> 16, tdp |-> 170],
             performance_tier |-> "mid-range"],
     c4 |-> [type |-> "GPU", name |-> "GeForce RTX 4070 12GB", price |-> 599,
             specs |-> [tdp |-> 200], performance_tier |-> "mid-range"],
     c5 |-> [type |-> "Motherboard", name |-> "B650 AORUS ELITE", price |-> 199,
             specs |-> [socket |-> "AM5", memory_type |-> "DDR5"],
             performance_tier |-> "mid-range"],
     c6 |-> [type |-> "Memory", name |-> "Vengeance DDR5-6000 32 GB",
             price |-> 120, specs |-> EmptyDict, performance_tier |-> "high-end"],
     c7 |-> [name |-> "H510 Flow", price |-> 0, specs |-> EmptyDict],
     c8 |-> [type |-> "CPU", name |-> "Threadripper 7980X", price |-> 900,
             specs |-> [socket |-> "sTR5", core_count |-> 16, tdp |-> 125]],
     c9 |-> [type |-> "CPU", name |-> "Xeon w9-3495X", price |-> 750,
             specs |-> [socket |-> "LGA4677", core_count |-> 16, tdp |-> 125]],
     c10 |-> [type |-> "CPU", name |-> "Ryzen 7 5800X3D", price |-> 0,
              specs |-> [socket |-> "AM4", core_count |-> 8, tdp |-> 0],
              performance_tier |-> "budget",
              rating |-> [average |-> 50, count |-> 100000]]]

CatalogIds == DOMAIN Catalog

\* The CPU hits a search returns to suggest_cpus.
CpuHits ==
    {[type |-> "CPU", name |-> "Core i5-13600K",
      specs |-> [socket |-> "LGA1700", tdp |-> 125] @@ c] @@ p :
        c \in OptField("core_count", {16}),
        p \in OptField("price", {NoneNum, 299, 300, 750, 900})}

\* The hits a search with this budget can return: with a budget, the price
\* filter keeps the records that have a price within it.
HitsWithin(budget) ==
    IF budget = 0 THEN CpuHits
    ELSE {h \in CpuHits : /\ "price" \in DOMAIN h
                          /\ h.price # NoneNum
                          /\ h.price <= budget}

\* The sequences without repetition of at most n members of S.
RECURSIVE SeqsUpTo(_, _)
SeqsUpTo(S, n) ==
    IF n = 0 THEN {<<>>}
    ELSE LET shorter == SeqsUpTo(S, n - 1)
         IN  shorter \cup
             {Append(pair[1], pair[2]) : pair \in
                 {pair \in shorter \X S :
                     /\ Len(pair[1]) = n - 1
                     /\ \A i \in 1..Len(pair[1]) : pair[1][i] # pair[2]}}

\* Every sequence of at most n members of S.
RECURSIVE ListsUpTo(_, _)
ListsUpTo(S, n) ==
    IF n = 0 THEN {<<>>}
    ELSE LET shorter == ListsUpTo(S, n - 1)
         IN  shorter \cup
             {Append(pair[1], pair[2]) : pair \in
                 {pair \in shorter \X S : Len(pair[1]) = n - 1}}

ScoringRequests ==
    {[op |-> "calculate_tier_match_score", component |-> c, target_tier |-> t] :
        c \in OptField("performance_tier", TierValues), t \in TargetTiers}
    \cup
    {[op |-> "calculate_value_score", component |-> c, component_type |-> ty] :
        c \in PricedComponents, ty \in TypeValues}
    \cup
    {[op |-> "calculate_popularity_score", component |-> c] :
        c \in RatedComponents}
    \cup
    {[op |-> "calculate_power_efficiency_score", component |-> c] :
        c \in PoweredComponents}
    \cup
    {[op |-> "calculate_future_proof_score", component |-> c,
      component_type |-> Get(c, "type", "Unknown")] :
        c \in FutureProofComponents}
    \cup
    {[op |-> "calculate_total_score", component |-> Catalog[id],
      component_type |-> Get(Catalog[id], "type", "Unknown"), target_tier |-> t] :
        id \in CatalogIds, t \in TargetTiers}
    \cup
    {r \in UNION {
        {[op |-> "suggest_cpus", budget |-> b, use_case |-> u, limit |-> l,
          hits |-> h] :
            u \in {"", "workstation"}, l \in {1, 2},
            h \in SeqsUpTo(HitsWithin(b), MaxHits)} :
        b \in {0, 150, 300, 1000}} : Len(r.hits) <= 3 * r.limit}
    \cup
    {[op |-> "batch_score_components", component_ids |-> ids, target_tier |-> t] :
        ids \in ListsUpTo(CatalogIds \cup {"c0"}, MaxIds)
                \cup {[i \in 1..(MAX_BATCH + 1) |-> "c1"]},
        t \in TargetTiers}

\* A scorer's return value, or the exception it raised.
Outcome(raises, error, value) ==
    IF raises THEN [raised |-> error] ELSE [returned |-> value]

CalculateTierMatchScore ==
    /\ request.op = "calculate_tier_match_score"
    /\ response = Pending
    /\ response' = [returned |->
                      calculate_tier_match_score(request.component, request.target_tier)]
    /\ UNCHANGED <<request, records, caches, history>>

CalculateValueScore ==
    /\ request.op = "calculate_value_score"
    /\ response = Pending
    /\ response' = Outcome(calculate_value_score_raises(request.component),
                           "TypeError",
                           calculate_value_score(request.component,
                                                 request.component_type))
    /\ UNCHANGED <<request, records, caches, history>>

CalculatePopularityScore ==
    /\ request.op = "calculate_popularity_score"
    /\ response = Pending
    /\ response' = [returned |-> calculate_popularity_score(request.component)]
    /\ UNCHANGED <<request, records, caches, history>>

CalculatePowerEfficiencyScore ==
    /\ request.op = "calculate_power_efficiency_score"
    /\ response = Pending
    /\ response' = [returned |-> calculate_power_efficiency_score(request.component)]
    /\ UNCHANGED <<request, records, caches, history>>

CalculateFutureProofScore ==
    /\ request.op = "calculate_future_proof_score"
    /\ response = Pending
    /\ response' = Outcome(calculate_future_proof_score_raises(request.component,
                                                               request.component_type),
                           calculate_future_proof_score_error(request.component,
                                                              request.component_type),
                           calculate_future_proof_score(request.component,
                                                        request.component_type))
    /\ UNCHANGED <<request, records, caches, history>>

CalculateTotalScore ==
    /\ request.op = "calculate_total_score"
    /\ response = Pending
    /\ response' = Outcome(calculate_total_score_raises(request.component,
                                                        request.component_type),
                           calculate_total_score_error(request.component,
                                                       request.component_type),
                           calculate_total_score(request.component,
                                                 request.component_type,
                                                 request.target_tier))
    /\ UNCHANGED <<request, records, caches, history>>

SuggestCpus ==
    /\ request.op = "suggest_cpus"
    /\ response = Pending
    /\ response' = suggest_cpus(request.budget, request.use_case, request.limit,
                                records)
    /\ records' = ScoredInPlace(records,
                                CpuTargetTier(request.budget, request.use_case))
    /\ UNCHANGED <<request, caches, history>>

BatchScoreComponents ==
    /\ request.op = "batch_score_components"
    /\ response = Pending
    /\ response' = batch_score_components(request.component_ids,
                                          request.target_tier, Catalog)
    /\ UNCHANGED <<request, records, caches, history>>

\* The records of a suggest_cpus call are the hits the search returned.
ScoreInit ==
    /\ request \in ScoringRequests
    /\ response = Pending
    /\ records = IF request.op = "suggest_cpus" THEN request.hits ELSE <<>>
    /\ caches = NewCaches
    /\ history = <<>>

ScoreNext ==
    \/ CalculateTierMatchScore
    \/ CalculateValueScore
    \/ CalculatePopularityScore
    \/ CalculatePowerEfficiencyScore
    \/ CalculateFutureProofScore
    \/ CalculateTotalScore
    \/ SuggestCpus
    \/ BatchScoreComponents

ScoreSpec == ScoreInit /\ [][ScoreNext]_vars

-----------------------------------------------------------------------------
(* A session: one caller scoring and ranking the same records *)

\* The number of calls of a session.
MaxCalls == 3

\* The CPU records a session works on: with and without a price, one with the
\* None of a price that could not be parsed.
SessionCpus ==
    {h \in CpuHits : /\ "core_count" \in DOMAIN h.specs
                     /\ Get(h, "price", 0) \in {0, NoneNum, 299, 900}}

\* The record lists of a session: one or two different records.
SessionRecords == SeqsUpTo(SessionCpus, 2) \ {<<>>}

SessionTiers == {"budget", "high-end"}

\* The calls a caller holding n records can make: score one of them, or have
\* them ranked.
SessionRequests(n) ==
    {[op |-> "calculate_total_score", record |-> i, component_type |-> "CPU",
      target_tier |-> t] : i \in 1..n, t \in SessionTiers}
    \cup
    {[op |-> "suggest_cpus", budget |-> b, use_case |-> u, limit |-> 2] :
        b \in {0, 150}, u \in {"", "workstation"}}

\* calculate_total_score on a record the caller holds.
SessionScore ==
    /\ request.op = "calculate_total_score"
    /\ response = Pending
    /\ response' = Outcome(calculate_total_score_raises(records[request.record],
                                                        request.component_type),
                           calculate_total_score_error(records[request.record],
                                                       request.component_type),
                           calculate_total_score(records[request.record],
                                                 request.component_type,
                                                 request.target_tier))
    /\ UNCHANGED <<request, records, caches, history>>

\* suggest_cpus with the search returning the records of the session; the
\* caller holds the same objects afterwards, with the scores in them.  The
\* search builds its records anew, so a session has one ranking at most.
SessionRank ==
    /\ request.op = "suggest_cpus"
    /\ response = Pending
    /\ response' = suggest_cpus(request.budget, request.use_case, request.limit,
                                records)
    /\ records' = ScoredInPlace(records,
                                CpuTargetTier(request.budget, request.use_case))
    /\ UNCHANGED <<request, caches, history>>

\* The call is logged and the caller makes the next one.
SessionNextCall ==
    /\ response # Pending
    /\ Len(history) < MaxCalls - 1
    /\ history' = Append(history, [request |-> request, response |-> response])
    /\ request' \in SessionRequests(Len(records))
    /\ request'.op = "suggest_cpus" =>
           \A i \in 1..Len(history') : history'[i].request.op # "suggest_cpus"
    /\ response' = Pending
    /\ UNCHANGED <<records, caches>>

SessionInit ==
    /\ records \in SessionRecords
    /\ request \in SessionRequests(Len(records))
    /\ response = Pending
    /\ caches = NewCaches
    /\ history = <<>>

SessionNext ==
    \/ SessionScore
    \/ SessionRank
    \/ SessionNextCall

SessionSpec == SessionInit /\ [][SessionNext]_vars

-----------------------------------------------------------------------------
(* The compatibility routes: routes/compatibility.py *)

\* The catalog the routes resolve IDs in, whole records by ID as the indexer
\* writes them: a memory record carries its generation in its name only, a
\* video card no TDP.
BuildCatalog ==
    [p1 |-> [type |-> "CPU", name |-> "Ryzen 5 7600X", socket |-> "AM5",
             specs |-> [socket |-> "AM5", tdp |-> 105, core_count |-> 6]],
     p2 |-> [type |-> "CPU", name |-> "Core i5-13600K", socket |-> "LGA1700",
             specs |-> [socket |-> "LGA1700", tdp |-> 125, core_count |-> 14]],
     k1 |-> [type |-> "CPU Cooler", name |-> "Hyper 212", specs |-> EmptyDict],
     m1 |-> [type |-> "Motherboard", name |-> "B650I AORUS ULTRA",
             socket |-> "AM5", form_factor |-> "Mini ITX", memory_type |-> "DDR5",
             specs |-> [socket |-> "AM5", form_factor |-> "Mini ITX",
                        memory_type |-> "DDR5"]],
     m2 |-> [type |-> "Motherboard", name |-> "PRIME Z690-P D4",
             socket |-> "LGA1700", form_factor |-> "ATX", memory_type |-> "DDR4",
             specs |-> [socket |-> "LGA1700", form_factor |-> "ATX",
                        memory_type |-> "DDR4"]],
     r1 |-> [type |-> "Memory", name |-> "Vengeance DDR5-6000 32 GB",
             specs |-> [speed |-> "5,6000"]],
     g1 |-> [type |-> "GPU", name |-> "GeForce RTX 4070",
             specs |-> [chipset |-> "GeForce RTX 4070"]],
     u1 |-> [type |-> "Power Supply", name |-> "RM550x",
             specs |-> [wattage |-> 550]],
     u2 |-> [type |-> "Power Supply", name |-> "CX430",
             specs |-> [wattage |-> 430]]]

BuildCatalogIds == DOMAIN BuildCatalog

\* algolia_service.get_component_by_id: the record, or None, carried as the
\* dict without keys, for an ID the catalog does not hold.
get_component_by_id(catalog, component_id) ==
    IF component_id \in DOMAIN catalog THEN catalog[component_id] ELSE EmptyDict

\* The roles of component_mapping, in its order, each read from the field
\* <role>_id of the request.
BuildRoles == <<"cpu", "motherboard", "gpu", "ram", "psu">>

\* The roles of the request that have an ID and whose ID the catalog resolves.
ComponentsFound(build_request, catalog) ==
    LET Found(role) ==
            /\ TruthyStr(build_request[role])
            /\ TruthyDict(get_component_by_id(catalog, build_request[role]))
    IN  SelectSeq(BuildRoles, Found)

\* build_data: the resolved record of every role found.
BuildData(build_request, catalog) ==
    LET found == ComponentsFound(build_request, catalog)
    IN  [role \in {found[i] : i \in 1..Len(found)} |->
            get_component_by_id(catalog, build_request[role])]

\* The data of the check-build response, read out of the report with
\* result.get(key, default).
BuildResponseData(result, components_found) ==
    [is_compatible |-> Get(result, "is_compatible", FALSE),
     overall_score |-> Get(result, "overall_score", 0),
     issues |-> Get(result, "issues", <<>>),
     warnings |-> Get(result, "warnings", <<>>),
     recommendations |-> Get(result, "recommendations", <<>>),
     power_analysis |-> Get(result, "power_analysis", EmptyDict),
     components_analyzed |-> components_found]

\* check_build_compatibility; build_request holds the five IDs, None for an
\* ID that was not given.  The meta part of the response envelope is left out.
check_build_compatibility(build_request, catalog) ==
    [success |-> TRUE,
     data |-> BuildResponseData(check_full_build(BuildData(build_request, catalog)),
                                ComponentsFound(build_request, catalog))]

\* The IDs of the list that the catalog resolves, each once, in the order of
\* their first occurrence: the keys of the components dict.
RECURSIVE ResolvedIds(_, _)
ResolvedIds(component_ids, catalog) ==
    IF Len(component_ids) = 0 THEN <<>>
    ELSE LET rest    == ResolvedIds(SubSeq(component_ids, 1, Len(component_ids) - 1),
                                    catalog)
             comp_id == component_ids[Len(component_ids)]
         IN  IF /\ TruthyDict(get_component_by_id(catalog, comp_id))
                /\ \A i \in 1..Len(rest) : rest[i] # comp_id
             THEN Append(rest, comp_id)
             ELSE rest

\* The index pairs (i, j), i < j <= n, in the order of the two loops.
RECURSIVE IndexPairs(_, _)
IndexPairs(i, n) ==
    IF i >= n THEN <<>>
    ELSE [k \in 1..(n - i) |-> <<i, i + k>>] \o IndexPairs(i + 1, n)

relevant_pairs ==
    <<<<"CPU", "Motherboard">>, <<"Memory", "Motherboard">>,
      <<"GPU", "Motherboard">>, <<"Video Card", "Motherboard">>>>

is_relevant(type1, type2) ==
    \E k \in 1..Len(relevant_pairs) :
        LET t1 == relevant_pairs[k][1]
            t2 == relevant_pairs[k][2]
        IN  \/ Contains(type1, t1) /\ Contains(type2, t2)
            \/ Contains(type2, t1) /\ Contains(type1, t2)

\* The checker the batch check runs on a relevant pair.
BatchPairCheck(comp1, comp2, type1, type2) ==
    IF \/ Contains(type1, "CPU") /\ Contains(type2, "Motherboard")
       \/ Contains(type1, "Motherboard") /\ Contains(type2, "CPU")
    THEN check_cpu_motherboard(IF Contains(type1, "CPU") THEN comp1 ELSE comp2,
                               IF Contains(type2, "Motherboard") THEN comp2 ELSE comp1)
    ELSE IF \/ Contains(type1, "Memory") /\ Contains(type2, "Motherboard")
            \/ Contains(type1, "Motherboard") /\ Contains(type2, "Memory")
    THEN check_ram_motherboard(IF Contains(type1, "Memory") THEN comp1 ELSE comp2,
                               IF Contains(type2, "Motherboard") THEN comp2 ELSE comp1)
    ELSE IF \/ Contains(type1, "GPU") \/ Contains(type1, "Video")
            \/ Contains(type2, "GPU") \/ Contains(type2, "Video")
    THEN IF Contains(type1, "Motherboard")
         THEN check_gpu_motherboard(comp2, comp1)
         ELSE check_gpu_motherboard(comp1, comp2)
    ELSE Result(TRUE, "Compatible")

\* The entry of checks for one relevant pair.
BatchCheckResult(id1, id2, catalog) ==
    LET comp1 == catalog[id1]
        comp2 == catalog[id2]
        type1 == Get(comp1, "type", "")
        type2 == Get(comp2, "type", "")
        r     == BatchPairCheck(comp1, comp2, type1, type2)
    IN  [component1 |-> [id |-> id1, name |-> Get(comp1, "name", None), type |-> type1],
         component2 |-> [id |-> id2, name |-> Get(comp2, "name", None), type |-> type2],
         compatible |-> r.compatible,
         message |-> r.message]

\* The checks of the batch: one per relevant pair of resolved components.
BatchChecks(ids, catalog) ==
    LET Relevant(pair) == is_relevant(Get(catalog[ids[pair[1]]], "type", ""),
                                      Get(catalog[ids[pair[2]]], "type", ""))
        pairs == SelectSeq(IndexPairs(1, Len(ids)), Relevant)
    IN  [k \in 1..Len(pairs) |->
            BatchCheckResult(ids[pairs[k][1]], ids[pairs[k][2]], catalog)]

\* The data of the batch-check response.
BatchCheckData(components_checked, checks) ==
    LET Failed(check) == ~check.compatible
        failed == SelectSeq(checks, Failed)
    IN  [all_compatible |-> Len(failed) = 0,
         components_checked |-> components_checked,
         pairs_checked |-> Len(checks),
         checks |-> checks,
         issues |-> [k \in 1..Len(failed) |-> failed[k].message]]

MIN_BATCH_CHECK == 2
MAX_BATCH_CHECK == 10

\* batch_check_compatibility without its check on the number of resolved
\* components.
batch_check_compatibility_unresolved(component_ids, catalog) ==
    IF Len(component_ids) < MIN_BATCH_CHECK \/ Len(component_ids) > MAX_BATCH_CHECK
    THEN [raised |-> "ValidationException"]
    ELSE [success |-> TRUE,
          data |-> BatchCheckData(Len(ResolvedIds(component_ids, catalog)),
                                  BatchChecks(ResolvedIds(component_ids, catalog),
                                              catalog))]

\* batch_check_compatibility.  The meta part of the response envelope is
\* left out.
batch_check_compatibility(component_ids, catalog) ==
    IF Len(component_ids) < MIN_BATCH_CHECK \/ Len(component_ids) > MAX_BATCH_CHECK
    THEN [raised |-> "ValidationException"]
    ELSE IF Len(ResolvedIds(component_ids, catalog)) < MIN_BATCH_CHECK
    THEN [raised |-> "ValidationException"]
    ELSE [success |-> TRUE,
          data |-> BatchCheckData(Len(ResolvedIds(component_ids, catalog)),
                                  BatchChecks(ResolvedIds(component_ids, catalog),
                                              catalog))]

\* The cache manager, core/cache.py, and the pair check behind it.

\* CacheManager.get: None, carried as the dict without keys, for a store
\* that does not exist and for a key the store does not hold.
CacheGet(stores, cache_name, key) ==
    IF cache_name \notin DOMAIN stores THEN EmptyDict
    ELSE Get(stores[cache_name], key, EmptyDict)

\* CacheManager.set: nothing is stored for a store that does not exist.
CacheSet(stores, cache_name, key, value) ==
    IF cache_name \notin DOMAIN stores THEN stores
    ELSE [stores EXCEPT ![cache_name] =
             [k \in DOMAIN @ \cup {key} |-> IF k = key THEN value ELSE @[k]]]

\* CacheManager.clear: the named store, or every store for no name.
CacheClear(stores, cache_name) ==
    IF TruthyStr(cache_name)
    THEN IF cache_name \in DOMAIN stores
         THEN [stores EXCEPT ![cache_name] = EmptyDict]
         ELSE stores
    ELSE [name \in DOMAIN stores |-> EmptyDict]

\* The IDs in the order Python compares them as strings.
IdOrder == <<"g1", "k1", "m1", "m2", "p1", "p2", "r1", "u1", "u2", "x0">>

IdRank(id) == CHOOSE i \in 1..Len(IdOrder) : IdOrder[i] = id

\* f"pair:{min(id1, id2)}:{max(id1, id2)}", as the tuple of its parts.
PairCacheKey(component1_id, component2_id) ==
    IF IdRank(component1_id) <= IdRank(component2_id)
    THEN <<"pair", component1_id, component2_id>>
    ELSE <<"pair", component2_id, component1_id>>

PairVerdict(result, compatibility_type) ==
    [compatible |-> result.compatible,
     message |-> result.message,
     compatibility_type |-> compatibility_type]

\* The pair check with its branch for a motherboard given before the video
\* card left out.
PairCheck_gpufirst(comp1, comp2, type1, type2) ==
    IF \/ Contains(type1, "CPU") /\ Contains(type2, "Motherboard")
       \/ Contains(type1, "Motherboard") /\ Contains(type2, "CPU")
    THEN PairVerdict(
             check_cpu_motherboard(IF Contains(type1, "CPU") THEN comp1 ELSE comp2,
                                   IF Contains(type2, "Motherboard") THEN comp2 ELSE comp1),
             "cpu_motherboard_socket")
    ELSE IF \/ Contains(type1, "Memory") /\ Contains(type2, "Motherboard")
            \/ Contains(type1, "Motherboard") /\ Contains(type2, "Memory")
    THEN PairVerdict(
             check_ram_motherboard(IF Contains(type1, "Memory") THEN comp1 ELSE comp2,
                                   IF Contains(type2, "Motherboard") THEN comp2 ELSE comp1),
             "ram_motherboard_ddr")
    ELSE IF /\ Contains(type1, "GPU") \/ Contains(type1, "Video")
            /\ Contains(type2, "Motherboard")
    THEN PairVerdict(check_gpu_motherboard(comp1, comp2), "gpu_motherboard_pcie")
    ELSE PairVerdict(
             Result(TRUE, "Cannot determine compatibility between these component types"),
             "unknown")

\* The branches of check_component_pair on the two types.
PairCheck(comp1, comp2, type1, type2) ==
    IF \/ Contains(type1, "CPU") /\ Contains(type2, "Motherboard")
       \/ Contains(type1, "Motherboard") /\ Contains(type2, "CPU")
    THEN PairVerdict(
             check_cpu_motherboard(IF Contains(type1, "CPU") THEN comp1 ELSE comp2,
                                   IF Contains(type2, "Motherboard") THEN comp2 ELSE comp1),
             "cpu_motherboard_socket")
    ELSE IF \/ Contains(type1, "Memory") /\ Contains(type2, "Motherboard")
            \/ Contains(type1, "Motherboard") /\ Contains(type2, "Memory")
    THEN PairVerdict(
             check_ram_motherboard(IF Contains(type1, "Memory") THEN comp1 ELSE comp2,
                                   IF Contains(type2, "Motherboard") THEN comp2 ELSE comp1),
             "ram_motherboard_ddr")
    ELSE IF /\ Contains(type1, "GPU") \/ Contains(type1, "Video")
            /\ Contains(type2, "Motherboard")
    THEN PairVerdict(check_gpu_motherboard(comp1, comp2), "gpu_motherboard_pcie")
    ELSE IF /\ Contains(type1, "Motherboard")
            /\ Contains(type2, "GPU") \/ Contains(type2, "Video")
    THEN PairVerdict(check_gpu_motherboard(comp2, comp1), "gpu_motherboard_pcie")
    ELSE PairVerdict(
             Result(TRUE, "Cannot determine compatibility between these component types"),
             "unknown")

\* The result dict of check_component_pair for two resolved components.
PairResult(component1_id, component2_id, comp1, comp2) ==
    [component1 |-> [id |-> component1_id, name |-> Get(comp1, "name", None),
                     type |-> Get(comp1, "type", "")],
     component2 |-> [id |-> component2_id, name |-> Get(comp2, "name", None),
                     type |-> Get(comp2, "type", "")]]
    @@ PairCheck(comp1, comp2, Get(comp1, "type", ""), Get(comp2, "type", ""))

\* What a handler did: its response, the stores after it, and the catalog
\* queries it made, in order.
Handled(response_, stores, queried) ==
    [response |-> response_, caches |-> stores, queried |-> queried]

\* check_component_pair, after a miss in the cache.
ComputePair(component1_id, component2_id, catalog, stores) ==
    IF ~TruthyDict(get_component_by_id(catalog, component1_id))
       \/ ~TruthyDict(get_component_by_id(catalog, component2_id))
    THEN Handled([raised |-> "NotFoundException"], stores,
                 <<component1_id, component2_id>>)
    ELSE Handled([success |-> TRUE,
                  data |-> PairResult(component1_id, component2_id,
                                      get_component_by_id(catalog, component1_id),
                                      get_component_by_id(catalog, component2_id))],
                 CacheSet(stores, "compatibility",
                          PairCacheKey(component1_id, component2_id),
                          PairResult(component1_id, component2_id,
                                     get_component_by_id(catalog, component1_id),
                                     get_component_by_id(catalog, component2_id))),
                 <<component1_id, component2_id>>)

\* check_component_pair.
check_component_pair(component1_id, component2_id, catalog, stores) ==
    IF TruthyDict(CacheGet(stores, "compatibility",
                           PairCacheKey(component1_id, component2_id)))
    THEN Handled([success |-> TRUE,
                  data |-> CacheGet(stores, "compatibility",
                                    PairCacheKey(component1_id, component2_id))],
                 stores, <<>>)
    ELSE ComputePair(component1_id, component2_id, catalog, stores)

\* The entry a handled request leaves in the history.
Logged(handled) ==
    [request |-> request, response |-> handled.response, queried |-> handled.queried]

CheckComponentPair ==
    /\ request.op = "check_component_pair"
    /\ response = Pending
    /\ response' = check_component_pair(request.component1_id, request.component2_id,
                                        BuildCatalog, caches).response
    /\ caches' = check_component_pair(request.component1_id, request.component2_id,
                                      BuildCatalog, caches).caches
    /\ history' = Append(history,
                         Logged(check_component_pair(request.component1_id,
                                                     request.component2_id,
                                                     BuildCatalog, caches)))
    /\ UNCHANGED <<request, records>>

PairRequests(ids) ==
    {[op |-> "check_component_pair", component1_id |-> a, component2_id |-> b] :
        a \in ids, b \in ids}

\* The requests to the routes: builds of IDs by role, some of them not in
\* the catalog, ID lists of every length up to MaxCheckIds and one longer
\* than the route accepts, and every pair of IDs.
MaxCheckIds == 3

BuildRequests ==
    [cpu         : {None, "p1", "p2", "x0"},
     motherboard : {None, "m1", "m2"},
     gpu         : {None, "g1"},
     ram         : {None, "r1", "x0"},
     psu         : {None, "u1", "u2"}]

RouteRequests ==
    {[op |-> "check_build_compatibility", build_request |-> b] : b \in BuildRequests}
    \cup
    {[op |-> "batch_check_compatibility", component_ids |-> ids] :
        ids \in ListsUpTo(BuildCatalogIds \cup {"x0"}, MaxCheckIds)
                \cup {[i \in 1..(MAX_BATCH_CHECK + 1) |-> "p1"]}}
    \cup PairRequests(BuildCatalogIds \cup {"x0"})

CheckBuildCompatibility ==
    /\ request.op = "check_build_compatibility"
    /\ response = Pending
    /\ response' = check_build_compatibility(request.build_request, BuildCatalog)
    /\ UNCHANGED <<request, records, caches, history>>

BatchCheckCompatibility ==
    /\ request.op = "batch_check_compatibility"
    /\ response = Pending
    /\ response' = batch_check_compatibility(request.component_ids, BuildCatalog)
    /\ UNCHANGED <<request, records, caches, history>>

RouteInit ==
    /\ request \in RouteRequests
    /\ response = Pending
    /\ records = <<>>
    /\ caches = NewCaches
    /\ history = <<>>

RouteNext ==
    \/ CheckBuildCompatibility
    \/ BatchCheckCompatibility
    \/ CheckComponentPair

RouteSpec == RouteInit /\ [][RouteNext]_vars

-----------------------------------------------------------------------------
(* The cached routes of routes/components.py, and sessions of requests *)

facet_list ==
    {"brand", "type", "performance_tier", "socket", "memory_type", "form_factor"}

\* The records the facet query counts: those of the type, or all.
FacetRecords(component_type, catalog) ==
    {id \in DOMAIN catalog :
        TruthyStr(component_type) => Get(catalog[id], "type", "") = component_type}

\* algolia_service.get_facets: for every facet that some counted record
\* carries, the number of records by value.
get_facets_of_index(component_type, catalog) ==
    LET ids == FacetRecords(component_type, catalog)
        Carrying(f) == {id \in ids : f \in DOMAIN catalog[id]}
    IN  [f \in {g \in facet_list : Carrying(g) # {}} |->
            [v \in {catalog[id][f] : id \in Carrying(f)} |->
                Cardinality({id \in Carrying(f) : catalog[id][f] = v})]]

\* f"facets:{component_type or 'all'}", as the tuple of its parts.
FacetsCacheKey(component_type) ==
    <<"facets", IF TruthyStr(component_type) THEN component_type ELSE "all">>

FacetsData(component_type, facets) ==
    [component_type |-> component_type, available_filters |-> facets]

\* get_facets of routes/components.py.
get_facets(component_type, catalog, stores) ==
    IF TruthyDict(CacheGet(stores, "facets", FacetsCacheKey(component_type)))
    THEN Handled([success |-> TRUE,
                  data |-> CacheGet(stores, "facets", FacetsCacheKey(component_type))],
                 stores, <<>>)
    ELSE Handled([success |-> TRUE,
                  data |-> FacetsData(component_type,
                                      get_facets_of_index(component_type, catalog))],
                 CacheSet(stores, "facets", FacetsCacheKey(component_type),
                          get_facets_of_index(component_type, catalog)),
                 <<component_type>>)

\* f"component:{component_id}", as the tuple of its parts.
ComponentCacheKey(component_id) == <<"component", component_id>>

\* get_component_details of routes/components.py.
get_component_details(component_id, catalog, stores) ==
    IF TruthyDict(CacheGet(stores, "components", ComponentCacheKey(component_id)))
    THEN Handled([success |-> TRUE,
                  data |-> CacheGet(stores, "components",
                                    ComponentCacheKey(component_id))],
                 stores, <<>>)
    ELSE IF ~TruthyDict(get_component_by_id(catalog, component_id))
    THEN Handled([raised |-> "NotFoundException"], stores, <<component_id>>)
    ELSE Handled([success |-> TRUE,
                  data |-> get_component_by_id(catalog, component_id)],
                 CacheSet(stores, "components", ComponentCacheKey(component_id),
                          get_component_by_id(catalog, component_id)),
                 <<component_id>>)

GetFacets ==
    /\ request.op = "get_facets"
    /\ response = Pending
    /\ response' = get_facets(request.component_type, BuildCatalog, caches).response
    /\ caches' = get_facets(request.component_type, BuildCatalog, caches).caches
    /\ history' = Append(history,
                         Logged(get_facets(request.component_type, BuildCatalog, caches)))
    /\ UNCHANGED <<request, records>>

GetComponentDetails ==
    /\ request.op = "get_component_details"
    /\ response = Pending
    /\ response' = get_component_details(request.component_id, BuildCatalog,
                                         caches).response
    /\ caches' = get_component_details(request.component_id, BuildCatalog,
                                       caches).caches
    /\ history' = Append(history,
                         Logged(get_component_details(request.component_id,
                                                      BuildCatalog, caches)))
    /\ UNCHANGED <<request, records>>

\* The number of requests and cache events of a session.
MaxCacheSteps == 4

\* The names the clear endpoint is called with: none, two stores, and the
\* name the pair check uses.
ClearNames == {None, "components", "facets", "compatibility"}

\* clear_cache of main.py, between two requests.
ClearCache ==
    /\ response # Pending
    /\ Len(history) < MaxCacheSteps
    /\ \E cache_name \in ClearNames :
          /\ caches' = CacheClear(caches, cache_name)
          /\ history' = Append(history, [event |-> "clear", cache_name |-> cache_name])
    /\ UNCHANGED <<request, response, records>>

\* The TTL of an entry runs out: the store drops the entry.
ExpireEntry ==
    /\ response # Pending
    /\ Len(history) < MaxCacheSteps
    /\ \E cache_name \in DOMAIN caches :
          \E key \in DOMAIN caches[cache_name] :
              /\ caches' = [caches EXCEPT ![cache_name] =
                               [k \in DOMAIN @ \ {key} |-> @[k]]]
              /\ history' = Append(history, [event |-> "expire",
                                             cache_name |-> cache_name, key |-> key])
    /\ UNCHANGED <<request, response, records>>

\* The requests of a session: pairs over three IDs, one of them unknown,
\* facets of all records, of a type and of a type without records, and the
\* details of three IDs.
CacheRequests ==
    PairRequests({"p1", "m1", "x0"})
    \cup {[op |-> "get_facets", component_type |-> t] : t \in {None, "CPU", "Case"}}
    \cup {[op |-> "get_component_details", component_id |-> id] :
             id \in {"p1", "g1", "x0"}}

CacheNextRequest ==
    /\ response # Pending
    /\ Len(history) < MaxCacheSteps
    /\ request' \in CacheRequests
    /\ response' = Pending
    /\ UNCHANGED <<records, caches, history>>

CacheInit ==
    /\ request \in CacheRequests
    /\ response = Pending
    /\ records = <<>>
    /\ caches = NewCaches
    /\ history = <<>>

CacheNext ==
    \/ CheckComponentPair
    \/ GetFacets
    \/ GetComponentDetails
    \/ ClearCache
    \/ ExpireEntry
    \/ CacheNextRequest

CacheSpec == CacheInit /\ [][CacheNext]_vars

\* The single calls.  Sessions of several calls are SessionSpec and CacheSpec.
Init == CompatInit \/ ScoreInit \/ RouteInit

Next == CompatNext \/ ScoreNext \/ RouteNext

Spec == Init /\ [][Next]_vars

-----------------------------------------------------------------------------
(* Properties of the pairwise checkers and of check_full_build *)

Returned(op) == request.op = op /\ response # Pending

\* The socket, TDP, wattage of a component: the field under specs, or the
\* top-level field when specs has none.  A field counts as absent when the
\* key is missing or its value is empty (None, "", 0).
SocketOf(component) ==
    GetOrStr(Get(component, "specs", EmptyDict), "socket",
             Get(component, "socket", None))

TdpOr(component, default) ==
    GetOrNum(Get(component, "specs", EmptyDict), "tdp",
             Get(component, "tdp", default))

WattageOf(psu) ==
    GetOrNum(Get(psu, "specs", EmptyDict), "wattage", Get(psu, "wattage", 0))

\* C1: for a CPU and a motherboard whose sockets are both present,
\* check_cpu_motherboard returns compatible exactly when the two socket
\* strings are equal, case included.
C1_SocketEquality ==
    Returned("check_cpu_motherboard") =>
        LET cpu_socket == SocketOf(request.cpu)
            mb_socket  == SocketOf(request.motherboard)
        IN  (TruthyStr(cpu_socket) /\ TruthyStr(mb_socket)) =>
                (response.compatible <=> (cpu_socket = mb_socket))

\* C1 witness: the sockets differ only by case and the pair is rejected.
C1_Witness ==
    /\ Returned("check_cpu_motherboard")
    /\ SocketOf(request.cpu) = "am5"
    /\ SocketOf(request.motherboard) = "AM5"
    /\ response.compatible = FALSE

\* C2: check_gpu_psu returns compatible exactly when the PSU wattage is at
\* least ceil((gpu_tdp + cpu_tdp + 150) * 1.25), gpu_tdp defaulting to 200 and
\* cpu_tdp to 125 with a CPU and to 0 without one.
C2_GpuPsuCeil ==
    Returned("check_gpu_psu") =>
        LET gpu_tdp == TdpOr(request.gpu, DEFAULT_GPU_TDP)
            cpu_tdp == IF TruthyDict(request.cpu)
                       THEN TdpOr(request.cpu, DEFAULT_CPU_TDP) ELSE 0
        IN  response.compatible <=>
                (WattageOf(request.psu)
                    >= CeilTimes125(gpu_tdp + cpu_tdp + SYSTEM_OVERHEAD))

\* C3: check_cpu_psu returns compatible exactly when the PSU wattage is at
\* least cpu_tdp + 100, cpu_tdp being the CPU's TDP, or 125 when it has none.
C3_CpuPsuThreshold ==
    Returned("check_cpu_psu") =>
        (response.compatible <=>
            (WattageOf(request.psu)
                >= TdpOr(request.cpu, DEFAULT_CPU_TDP) + CPU_PSU_OVERHEAD))

\* C3 witness: a 125 W CPU with a 225 W PSU passes.
C3_Witness ==
    /\ Returned("check_cpu_psu")
    /\ request.cpu = [specs |-> [tdp |-> 125]]
    /\ request.psu = [specs |-> [wattage |-> 225]]
    /\ response.compatible = TRUE

\* C4: the report of check_full_build is overall incompatible exactly when
\* one of its checks has compatible = false and severity = error.
C4_OverallIffError ==
    Returned("check_full_build") =>
        (response.compatible = FALSE <=>
            \E i \in 1..Len(response.checks) :
                /\ response.checks[i].compatible = FALSE
                /\ response.checks[i].severity = "error")

\* C4 witness: a five-check report in which only the RAM check fails is
\* overall incompatible.
C4_Witness ==
    /\ Returned("check_full_build")
    /\ Len(response.checks) = 5
    /\ \A i \in 1..5 :
          response.checks[i].compatible
              <=> (response.checks[i].check # "RAM-Motherboard Memory Type")
    /\ \E i \in 1..5 :
          /\ response.checks[i].check = "RAM-Motherboard Memory Type"
          /\ response.checks[i].severity = "error"
    /\ response.compatible = FALSE

\* The TDP a role of a build contributes according to C5: 0 when the role is
\* absent, the component's TDP, or the checkers' default when it has none.
RoleTdp(build, role, default) ==
    IF TruthyDict(Get(build, role, EmptyDict))
    THEN TdpOr(build[role], default)
    ELSE 0

\* C5: check_full_build reports total_power = cpu_tdp + gpu_tdp + 150, a
\* present role without a TDP counting 125 W (CPU) or 200 W (GPU).
C5_TotalPowerDefaults ==
    Returned("check_full_build") =>
        response.total_power =
            RoleTdp(request.build, "cpu", DEFAULT_CPU_TDP)
            + RoleTdp(request.build, "gpu", DEFAULT_GPU_TDP)
            + SYSTEM_OVERHEAD

\* The build without its PSU.
WithoutPsu(build) == [role \in DOMAIN build \ {"psu"} |-> build[role]]

\* C6: check_full_build reports recommended_psu = ceil(total_power * 1.25),
\* and total_power and recommended_psu do not depend on the PSU of the build.
C6_RecommendedPsuCeil ==
    Returned("check_full_build") =>
        /\ response.recommended_psu = CeilTimes125(response.total_power)
        /\ LET bare == check_full_build(WithoutPsu(request.build))
           IN  /\ bare.total_power = response.total_power
               /\ bare.recommended_psu = response.recommended_psu

-----------------------------------------------------------------------------
(* Properties of the scorer and of the rankings *)

\* The ranked list a ranking call returned: the suggestions of suggest_cpus,
\* the components of batch_score_components.
RankedList ==
    IF request.op = "suggest_cpus" THEN response.returned
    ELSE response.data.components

RankKey ==
    IF request.op = "suggest_cpus" THEN "recommendation_score" ELSE "total_score"

RankingReturned ==
    \/ Returned("suggest_cpus") /\ "returned" \in DOMAIN response
    \/ Returned("batch_score_components") /\ "data" \in DOMAIN response

\* True when the entry carries a price that is a number.
HasPrice(entry) == "price" \in DOMAIN entry /\ entry.price # NoneNum

\* C7: a ranking call returns its candidates ordered by total score
\* descending, and of any two candidates with equal total score the
\* lower-priced one comes first.
C7_RankingOrder ==
    RankingReturned =>
        \A i, j \in 1..Len(RankedList) :
            i < j =>
                /\ FracLe(RankedList[j][RankKey], RankedList[i][RankKey])
                /\ (/\ RankedList[i][RankKey] = RankedList[j][RankKey]
                    /\ HasPrice(RankedList[i])
                    /\ HasPrice(RankedList[j]))
                   => RankedList[i].price <= RankedList[j].price

\* True when the record carries no rating data: no rating record, no average,
\* no review count.
NoRatingData(component) ==
    DOMAIN component \cap {"rating", "average_rating", "review_count"} = {}

\* C8: calculate_popularity_score returns 50 for a component that has no
\* rating data at all.
C8_PopularityNeutral ==
    (Returned("calculate_popularity_score") /\ NoRatingData(request.component))
        => response.returned = <<50, 1>>

KnownTiers == {"budget", "mid-range", "high-end"}

\* C9: calculate_tier_match_score returns 50 for any target tier whenever the
\* performance tier of the component is unknown: absent from the record, or
\* not one of budget, mid-range, high-end.
C9_UnknownTierNeutral ==
    (/\ Returned("calculate_tier_match_score")
     /\ \/ "performance_tier" \notin DOMAIN request.component
        \/ request.component.performance_tier \notin KnownTiers)
        => response.returned = 50

\* The place of a known tier in the order budget, mid-range, high-end.
TierRank(tier) ==
    CASE tier = "budget" -> 0 [] tier = "mid-range" -> 1 [] tier = "high-end" -> 2

\* True when calculate_tier_match_score returned for a component tier and a
\* target tier that are both known.
BothTiersKnown ==
    /\ Returned("calculate_tier_match_score")
    /\ "performance_tier" \in DOMAIN request.component
    /\ request.component.performance_tier \in KnownTiers
    /\ request.target_tier \in KnownTiers

\* C10: with both tiers among budget, mid-range, high-end,
\* calculate_tier_match_score returns 100 for ordinal distance 0, 70 for
\* distance 1 and 40 for distance 2, and the score of the two tiers swapped is
\* the same.
C10_TierDistance ==
    BothTiersKnown =>
        LET comp   == TierRank(request.component.performance_tier)
            target == TierRank(request.target_tier)
            dist   == IF comp >= target THEN comp - target ELSE target - comp
        IN  /\ response.returned =
                    (CASE dist = 0 -> 100 [] dist = 1 -> 70 [] dist = 2 -> 40)
            /\ response.returned =
                    calculate_tier_match_score(
                        [performance_tier |-> request.target_tier],
                        request.component.performance_tier)

\* A budget component scored against the high-end tier: distance 2, score 40.
C10_Witness ==
    /\ BothTiersKnown
    /\ request.component.performance_tier = "budget"
    /\ request.target_tier = "high-end"
    /\ response.returned = 40

-----------------------------------------------------------------------------
(* Properties of the checkers on records with missing fields *)

\* True when the component carries the field neither under specs nor on top.
FieldAbsent(component, key) ==
    /\ key \notin DOMAIN component
    /\ key \notin DOMAIN Get(component, "specs", EmptyDict)

\* True when a checker other than check_cpu_motherboard returned for records
\* of which a field the checker reads is absent.
ReadFieldAbsent ==
    \/ /\ Returned("check_cpu_psu")
       /\ FieldAbsent(request.cpu, "tdp") \/ FieldAbsent(request.psu, "wattage")
    \/ /\ Returned("check_gpu_psu")
       /\ \/ FieldAbsent(request.gpu, "tdp")
          \/ FieldAbsent(request.psu, "wattage")
          \/ TruthyDict(request.cpu) /\ FieldAbsent(request.cpu, "tdp")
    \/ /\ Returned("check_ram_motherboard")
       /\ \/ FieldAbsent(request.ram, "type")
          \/ FieldAbsent(request.motherboard, "memory_type")
    \/ /\ Returned("check_gpu_motherboard")
       /\ FieldAbsent(request.motherboard, "form_factor")

\* C11: for every pairwise checker other than the socket check, a field the
\* checker reads being absent never makes it raise and never yields
\* compatible=false: the checker returns a result, and the result is
\* compatible.
C11_AbsentFieldPermissive ==
    ReadFieldAbsent =>
        /\ DOMAIN response = {"compatible", "message"}
        /\ response.compatible = TRUE

\* True when the message is one of the warnings of check_ram_motherboard.
IsWarning(message) == Contains(message, "(!)")

\* The memory type of a RAM record is missing when specs has none and the
\* top-level type field is missing or holds the component type.
RamTypeMissing(ram) ==
    /\ ~TruthyStr(Get(Get(ram, "specs", EmptyDict), "type", None))
    /\ \/ ~TruthyStr(Get(ram, "type", None))
       \/ ram.type = "Memory"

MemoryTypeMissing(motherboard) ==
    /\ ~TruthyStr(Get(Get(motherboard, "specs", EmptyDict), "memory_type", None))
    /\ ~TruthyStr(Get(motherboard, "memory_type", None))

\* C12: check_ram_motherboard returns compatible=true with a warning message
\* whenever the memory type of the RAM or of the motherboard is missing, a RAM
\* record whose only type field is its component type included.
C12_MissingMemoryTypeWarns ==
    (/\ Returned("check_ram_motherboard")
     /\ RamTypeMissing(request.ram) \/ MemoryTypeMissing(request.motherboard))
        => /\ response.compatible = TRUE
           /\ IsWarning(response.message)

\* The memory type check_ram_motherboard reads from a RAM record and from a
\* motherboard: the field under specs, or the top-level field when specs has
\* none.
RamTypeOf(ram) ==
    GetOrStr(Get(ram, "specs", EmptyDict), "type", Get(ram, "type", None))

MemoryTypeOf(motherboard) ==
    GetOrStr(Get(motherboard, "specs", EmptyDict), "memory_type",
             Get(motherboard, "memory_type", None))

\* C13: when the RAM type and the motherboard memory type are both present,
\* check_ram_motherboard returns compatible exactly when the first 4
\* characters of the two strings, upper-cased, are equal.
C13_PrefixMatch ==
    (/\ Returned("check_ram_motherboard")
     /\ TruthyStr(RamTypeOf(request.ram))
     /\ TruthyStr(MemoryTypeOf(request.motherboard)))
        => (response.compatible <=>
               Prefix(Upper(RamTypeOf(request.ram)), 4)
                   = Prefix(Upper(MemoryTypeOf(request.motherboard)), 4))

\* C13 witness: DDR5 RAM on a board whose memory type is written ddr5-5600
\* is accepted.
C13_Witness ==
    /\ Returned("check_ram_motherboard")
    /\ RamTypeOf(request.ram) = "DDR5"
    /\ MemoryTypeOf(request.motherboard) = "ddr5-5600"
    /\ response.compatible = TRUE

\* C14: check_cpu_motherboard returns compatible=false with the
\* missing-socket message, and does not raise, whenever the socket of the CPU
\* or of the motherboard is absent, under specs and on top.
C14_MissingSocketFails ==
    (/\ Returned("check_cpu_motherboard")
     /\ ~TruthyStr(SocketOf(request.cpu)) \/ ~TruthyStr(SocketOf(request.motherboard)))
        => response = Result(FALSE, "Missing socket information")

\* C14 witness: a CPU record without any socket field against an AM5 board.
C14_Witness ==
    /\ Returned("check_cpu_motherboard")
    /\ FieldAbsent(request.cpu, "socket")
    /\ SocketOf(request.motherboard) = "AM5"
    /\ response = Result(FALSE, "Missing socket information")

-----------------------------------------------------------------------------
(* Properties of the report of check_full_build *)

\* The five role pairs in the order check_full_build runs them, each with the
\* name of its check.
RolePairs ==
    <<[check |-> "CPU-Motherboard Socket",      roles |-> {"cpu", "motherboard"}],
      [check |-> "RAM-Motherboard Memory Type", roles |-> {"ram", "motherboard"}],
      [check |-> "GPU-Motherboard PCIe",        roles |-> {"gpu", "motherboard"}],
      [check |-> "PSU Wattage (GPU)",           roles |-> {"gpu", "psu"}],
      [check |-> "PSU Wattage (CPU)",           roles |-> {"cpu", "psu"}]>>

\* True when the build holds a component in the role.
RolePresent(build, role) == TruthyDict(Get(build, role, EmptyDict))

\* The pairs of the build whose two roles are both present.
PresentPairs(build) ==
    LET BothPresent(pair) == \A role \in pair.roles : RolePresent(build, role)
    IN  SelectSeq(RolePairs, BothPresent)

\* C15: the checks in the report of check_full_build are exactly those of the
\* role pairs whose two roles are both present, one result per pair; absent
\* roles produce no check and no error, and the empty build yields zero
\* checks, overall compatible and total_power 150.
C15_ChecksOfPresentPairs ==
    Returned("check_full_build") =>
        /\ DOMAIN response =
               {"compatible", "checks", "warnings", "total_power", "recommended_psu"}
        /\ Len(response.checks) = Len(PresentPairs(request.build))
        /\ \A i \in 1..Len(response.checks) :
               response.checks[i].check = PresentPairs(request.build)[i].check
        /\ request.build = EmptyDict =>
               /\ response.checks = <<>>
               /\ response.compatible = TRUE
               /\ response.total_power = 150

\* C15 witness: a build of a GPU and a PSU only gets the one GPU-PSU check.
C15_Witness ==
    /\ Returned("check_full_build")
    /\ DOMAIN request.build = {"gpu", "psu"}
    /\ Len(response.checks) = 1
    /\ response.checks[1].check = "PSU Wattage (GPU)"

\* The empty build is reported with no checks.
C15_EmptyBuildWitness ==
    /\ Returned("check_full_build")
    /\ request.build = EmptyDict
    /\ response.checks = <<>>

\* True when a message carries the marker of a warning.
HasWarningMarker(message) == Contains(message, "Warning")

\* True when a message carries the marker of a warning or of a note.
HasNoteOrWarningMarker(message) ==
    Contains(message, "Note") \/ HasWarningMarker(message)

\* The messages of the checks of a report that satisfy Marked, in the order of
\* the checks.
MarkedMessages(checks, Marked(_)) ==
    SelectSeq([i \in 1..Len(checks) |-> checks[i].message], Marked)

\* True when some check of the report failed without a warning marker.
HasHardFailure(checks) ==
    \E i \in 1..Len(checks) :
        ~checks[i].compatible /\ ~HasWarningMarker(checks[i].message)

\* C16 (as stated): in the report of check_full_build the warnings are the
\* messages of the checks that carry a warning marker and nothing else, and
\* overall compatibility is false only through a check that failed without a
\* warning marker.
C16_WarningsAreMarkedChecks ==
    Returned("check_full_build") =>
        /\ response.warnings = MarkedMessages(response.checks, HasWarningMarker)
        /\ ~response.compatible => HasHardFailure(response.checks)

\* C16 (amended): the warnings are the messages of the checks that carry a
\* warning marker or a note marker, in the order of the checks, and nothing
\* else; overall compatibility is false only through a check that failed
\* without a warning marker.
C16_WarningsAreMarkedOrNotedChecks ==
    Returned("check_full_build") =>
        /\ response.warnings =
               MarkedMessages(response.checks, HasNoteOrWarningMarker)
        /\ ~response.compatible => HasHardFailure(response.checks)

\* C16 witness: a build whose RAM check warns and whose Mini ITX motherboard
\* adds a note stays compatible with both messages in the warnings.
C16_Witness ==
    /\ Returned("check_full_build")
    /\ response.compatible
    /\ Len(response.warnings) = 2
    /\ HasWarningMarker(response.warnings[1])
    /\ ~HasWarningMarker(response.warnings[2])
    /\ Contains(response.warnings[2], "Mini ITX")

\* The form factor check_gpu_motherboard reads: the specs field, else the
\* top-level field, else the empty string.
FormFactorOf(motherboard) ==
    GetOrStr(Get(motherboard, "specs", EmptyDict), "form_factor",
             Get(motherboard, "form_factor", ""))

\* C17: check_gpu_motherboard returns compatible=true for every GPU and
\* motherboard, and its message carries the single-PCIe-slot note exactly
\* when the form factor of the motherboard contains "Mini ITX".
C17_MiniItxNote ==
    Returned("check_gpu_motherboard") =>
        /\ response.compatible = TRUE
        /\ Contains(response.message, "1 PCIe slot")
               <=> Contains(FormFactorOf(request.motherboard), "Mini ITX")

\* C17 witness: a "Thin Mini ITX" board gets the note.
C17_Witness ==
    /\ Returned("check_gpu_motherboard")
    /\ FormFactorOf(request.motherboard) = "Thin Mini ITX"
    /\ response.compatible = TRUE
    /\ Contains(response.message, "1 PCIe slot")

-----------------------------------------------------------------------------
(* Properties of the total score *)

\* True when the call of the request returned a value.
ReturnedValue(op) == Returned(op) /\ "returned" \in DOMAIN response

\* The five sub-scores of a component, before any rounding.
SubScores(component, component_type, target_tier) ==
    [tier_match |-> Frac(calculate_tier_match_score(component, target_tier), 1),
     value_score |-> calculate_value_score(component, component_type),
     popularity |-> calculate_popularity_score(component),
     power_efficiency |-> calculate_power_efficiency_score(component),
     future_proof |-> Frac(calculate_future_proof_score(component, component_type), 1)]

\* One sub-score times its weight.
Weighted(scores, key) == FracMul(scores[key], Frac(WEIGHTS[key], 100))

\* The sum of the five sub-scores, each times its weight.
WeightedTotal(scores) ==
    FracAdd(Weighted(scores, "tier_match"),
    FracAdd(Weighted(scores, "value_score"),
    FracAdd(Weighted(scores, "popularity"),
    FracAdd(Weighted(scores, "power_efficiency"),
            Weighted(scores, "future_proof")))))

\* C18: the five weights sum to exactly 1.0 (100 hundredths), and the total
\* returned by calculate_total_score equals the weighted sum of the five
\* sub-scores rounded to one decimal place.
C18_WeightedSumRounded ==
    /\ DOMAIN WEIGHTS = {"tier_match", "value_score", "popularity",
                         "power_efficiency", "future_proof"}
    /\ WEIGHTS.tier_match + WEIGHTS.value_score + WEIGHTS.popularity
           + WEIGHTS.power_efficiency + WEIGHTS.future_proof = 100
    /\ ReturnedValue("calculate_total_score") =>
           response.returned.total =
               Round1(WeightedTotal(SubScores(request.component,
                                              request.component_type,
                                              request.target_tier)))

\* C18 witness: a total returned for a component whose sub-scores differ, so
\* that the weights matter.
C18_Witness ==
    /\ ReturnedValue("calculate_total_score")
    /\ response.returned.breakdown.tier_match
           # response.returned.breakdown.popularity
    /\ response.returned.breakdown.value_score
           # response.returned.breakdown.future_proof

-----------------------------------------------------------------------------
(* Properties of the range of the scores *)

\* True when the value of a key, if the record has the key, is in the set.
FieldIn(record, key, values) == key \in DOMAIN record => record[key] \in values

\* The invariants of the data model on the fields the scorers read: a price
\* that is a number >= 0, a tier among the three known ones, a rating that is
\* a record of an average between 0 and 5 stars and a count >= 0, a name that
\* is a string, a TDP and a core count that are numbers >= 0 and a memory type
\* that is a string.
DataModelComponent(component) ==
    LET rating == Get(component, "rating", EmptyDict)
        specs  == Get(component, "specs", EmptyDict)
    IN  /\ FieldIn(component, "price", Nat)
        /\ FieldIn(component, "performance_tier", {"budget", "mid-range", "high-end"})
        /\ FieldIn(rating, "average", 0..50)
        /\ FieldIn(rating, "count", Nat)
        /\ "name" \in DOMAIN component => component.name # None
        /\ FieldIn(component, "tdp", Nat)
        /\ FieldIn(specs, "tdp", Nat)
        /\ FieldIn(specs, "core_count", Nat)
        /\ "memory_type" \in DOMAIN specs => specs.memory_type # None

\* True when a score lies in [0, 100].
InScoreRange(score) == FracLe(Frac(0, 1), score) /\ FracLe(score, Frac(100, 1))

\* The sub-scorers that return a number and those that return a fraction.
IntegerScorers  == {"calculate_tier_match_score", "calculate_future_proof_score"}
FractionScorers == {"calculate_value_score", "calculate_popularity_score",
                    "calculate_power_efficiency_score"}

C19_SubScoreExtremes ==
    \/ /\ ReturnedValue("calculate_value_score")
       /\ Get(request.component, "price", NoneNum) = 0
    \/ /\ ReturnedValue("calculate_power_efficiency_score")
       /\ Get(Get(request.component, "specs", EmptyDict), "tdp", NoneNum) = 0
    \/ /\ ReturnedValue("calculate_popularity_score")
       /\ Get(Get(request.component, "rating", EmptyDict), "count", 0) = 100000

-----------------------------------------------------------------------------
(* Properties of the value score *)

\* The middle (min + max) / 2 of the price band of a type and a tier.
BandMid(component_type, tier) ==
    LET band == ExpectedPriceRange(TierThresholds(component_type), tier)
    IN  Frac(band[1] + band[2], 2)

\* a - b and a / b on fractions, b > 0.
FracSub(a, b) == FracAdd(a, FracMul(Frac(-1, 1), b))
FracDiv(a, b) == FracMul(a, <<b[2], b[1]>>)

\* The value score of a price > 0 against the middle of its band:
\* min(100, 70 + 30*(1 - price/mid)) up to the middle,
\* max(30, 100 - 50*((price - mid)/mid)) above it.
BandScore(price, mid) ==
    IF FracLe(price, mid)
    THEN FracMin(Frac(100, 1),
                 FracAdd(Frac(70, 1),
                         FracMul(Frac(30, 1),
                                 FracSub(Frac(1, 1), FracDiv(price, mid)))))
    ELSE FracMax(Frac(30, 1),
                 FracSub(Frac(100, 1),
                         FracMul(Frac(50, 1), FracDiv(FracSub(price, mid), mid))))

\* True when the record has no price: no price key, or the None the indexer
\* stores for a price it could not parse.
PriceMissing(component) == Get(component, "price", NoneNum) = NoneNum

\* What the value score of the request has to be: 50 without a price, the band
\* score of a price > 0; a price of 0 is left open.
ValueScoreAsSpecified ==
    LET component == request.component
        tier      == Get(component, "performance_tier", "mid-range")
    IN  /\ "returned" \in DOMAIN response
        /\ PriceMissing(component) => response.returned = Frac(50, 1)
        /\ Get(component, "price", 0) > 0 =>
               response.returned =
                   BandScore(Frac(component.price, 1),
                             BandMid(request.component_type, tier))

\* C20: calculate_value_score uses the price band of the component's type
\* and tier with mid = (min + max) / 2: it returns
\* min(100, 70 + 30*(1 - price/mid)) when price <= mid,
\* max(30, 100 - 50*((price - mid)/mid)) when price > mid, 50 when the price
\* is missing, and for a type outside the threshold table it uses the default
\* band instead of failing.
C20_ValueScoreFormula ==
    Returned("calculate_value_score") => ValueScoreAsSpecified

\* The same for the records whose price, if they have one, is a number.
C20_ValueScoreOfNumbers ==
    (Returned("calculate_value_score")
        /\ Get(request.component, "price", 0) # NoneNum) => ValueScoreAsSpecified

\* A price above the middle of the default band of a type outside the table.
C20_DefaultBandReached ==
    /\ ReturnedValue("calculate_value_score")
    /\ request.component_type = "Case"
    /\ Get(request.component, "price", 0) = 750
    /\ Get(request.component, "performance_tier", "mid-range") = "mid-range"
    /\ response.returned = Frac(300, 7)

-----------------------------------------------------------------------------
(* Properties of the power-efficiency score *)

\* The TDP calculate_power_efficiency_score reads: the specs field, else the
\* top-level field, else 0; a TDP of 0 or None counts as missing.
ScoredTdp(component) ==
    GetOrNum(Get(component, "specs", EmptyDict), "tdp", Get(component, "tdp", 0))

\* The TDP bands of the three tiers.
TdpBand ==
    [budget |-> <<35, 65>>] @@ ("mid-range" :> <<65, 125>>)
                            @@ ("high-end" :> <<125, 250>>)

\* The power-efficiency score of a TDP > 0 against a band: 100 up to the
\* minimum, 100 - 40*(tdp - min)/(max - min) inside the band,
\* max(20, 60 - 40*(tdp - max)/max) above the maximum.
TdpBandScore(tdp, band) ==
    IF tdp <= band[1] THEN Frac(100, 1)
    ELSE IF tdp <= band[2]
    THEN FracSub(Frac(100, 1),
                 FracMul(Frac(40, 1), Frac(tdp - band[1], band[2] - band[1])))
    ELSE FracMax(Frac(20, 1),
                 FracSub(Frac(60, 1),
                         FracMul(Frac(40, 1), Frac(tdp - band[2], band[2]))))

\* C21: calculate_power_efficiency_score returns 50 when the TDP is missing
\* and, for a component of one of the three tiers, 100 for a TDP at or below
\* the minimum of the tier's band (budget 35-65, mid-range 65-125, high-end
\* 125-250), the linear interpolation from 100 down to 60 inside the band and
\* max(20, 60 - 40*overage ratio) above the maximum.
C21_PowerEfficiencyBands ==
    Returned("calculate_power_efficiency_score") =>
        LET tdp  == ScoredTdp(request.component)
            tier == Get(request.component, "performance_tier", None)
        IN  /\ "returned" \in DOMAIN response
            /\ tdp = 0 => response.returned = Frac(50, 1)
            /\ (tdp > 0 /\ tier \in DOMAIN TdpBand) =>
                   response.returned = TdpBandScore(tdp, TdpBand[tier])

\* C21 witness: a 95 W mid-range part sits in the middle of its band, at 80.
C21_Witness ==
    /\ ReturnedValue("calculate_power_efficiency_score")
    /\ ScoredTdp(request.component) = 95
    /\ Get(request.component, "performance_tier", None) = "mid-range"
    /\ response.returned = Frac(80, 1)

\* The floor of 20 is reached: a 450 W budget part.
C21_FloorReached ==
    /\ ReturnedValue("calculate_power_efficiency_score")
    /\ ScoredTdp(request.component) = 450
    /\ Get(request.component, "performance_tier", None) = "budget"
    /\ response.returned = Frac(20, 1)

-----------------------------------------------------------------------------
(* Properties of the entry points as functions of their arguments *)

\* The records the call of the request was handed, as they were handed.
RecordsHanded == IF request.op = "suggest_cpus" THEN request.hits ELSE <<>>

\* C22: the entry points are pure: a completed call has left every component
\* record it was handed unchanged and has written no shared state (no cache
\* store), which is what makes concurrent calls return what each would
\* return alone.
C22_EntryPointsPure ==
    response # Pending => (records = RecordsHanded /\ caches = NewCaches)

\* The calls of the session that have completed, the last one included.
CompletedCalls ==
    IF response = Pending THEN history
    ELSE Append(history, [request |-> request, response |-> response])

\* True when two calls score the same record as the same type against the
\* same target tier.
SameScoring(a, b) ==
    /\ a.request.op = "calculate_total_score"
    /\ b.request.op = "calculate_total_score"
    /\ a.request.record = b.request.record
    /\ a.request.component_type = b.request.component_type
    /\ a.request.target_tier = b.request.target_tier

\* C23: scoring is idempotent: two calls of calculate_total_score with the
\* same record, type and target tier return the same total and the same
\* breakdown, also with a ranking call that scored the record in between.
C23_ScoringIdempotent ==
    \A i, j \in 1..Len(CompletedCalls) :
        SameScoring(CompletedCalls[i], CompletedCalls[j]) =>
            CompletedCalls[i].response = CompletedCalls[j].response

\* C23 witness: a record is scored against "budget", ranked against
\* "high-end", which writes that score into it, and scored against "budget"
\* again.
C23_Witness ==
    /\ Len(CompletedCalls) = 3
    /\ SameScoring(CompletedCalls[1], CompletedCalls[3])
    /\ CompletedCalls[1].request.target_tier = "budget"
    /\ "returned" \in DOMAIN CompletedCalls[1].response
    /\ CompletedCalls[2].request.op = "suggest_cpus"
    /\ CompletedCalls[2].request.use_case = "workstation"
    /\ "returned" \in DOMAIN CompletedCalls[2].response
    /\ "recommendation_score" \in DOMAIN records[CompletedCalls[3].request.record]
    /\ "returned" \in DOMAIN CompletedCalls[3].response

-----------------------------------------------------------------------------
(* C24: a build check with fewer than two components is rejected *)

\* The distinct IDs of the request that the catalog holds.
ResolvingIds(component_ids) ==
    {component_ids[i] : i \in 1..Len(component_ids)} \cap BuildCatalogIds

FewerThanTwo(component_ids) ==
    Len(component_ids) < 2 \/ Cardinality(ResolvingIds(component_ids)) < 2

\* C24: batch_check_compatibility raises ValidationException when fewer than
\* two component IDs are supplied or fewer than two of them resolve in the
\* catalog; it raises nothing else, and raises only then or for a list longer
\* than the route accepts; the check-build endpoint, which skips the IDs that
\* are absent or do not resolve, never raises.
C24_FewComponentsRejected ==
    /\ Returned("batch_check_compatibility") =>
          /\ FewerThanTwo(request.component_ids) =>
                response = [raised |-> "ValidationException"]
          /\ "raised" \in DOMAIN response =>
                /\ response.raised = "ValidationException"
                /\ \/ FewerThanTwo(request.component_ids)
                   \/ Len(request.component_ids) > MAX_BATCH_CHECK
          /\ "raised" \notin DOMAIN response =>
                /\ response.success
                /\ response.data.components_checked
                      = Cardinality(ResolvingIds(request.component_ids))
    /\ Returned("check_build_compatibility") => "raised" \notin DOMAIN response

\* Two IDs were supplied, one of them unknown to the catalog, and the request
\* was rejected.
C24_Witness ==
    /\ Returned("batch_check_compatibility")
    /\ Len(request.component_ids) = 2
    /\ Cardinality(ResolvingIds(request.component_ids)) = 1
    /\ "x0" \in {request.component_ids[i] : i \in 1..2}
    /\ response = [raised |-> "ValidationException"]

\* A check-build request whose IDs resolve to a single component is answered
\* with a report.
C24_SingleComponentBuildReported ==
    /\ Returned("check_build_compatibility")
    /\ Len(ComponentsFound(request.build_request, BuildCatalog)) = 1
    /\ response.success

-----------------------------------------------------------------------------
(* C25: the check-build endpoint and the report of check_full_build *)

\* The report of check_full_build for the components the endpoint resolved.
ResolvedBuildReport == check_full_build(BuildData(request.build_request, BuildCatalog))

\* C25: the check-build endpoint returns is_compatible equal to the overall
\* compatibility of check_full_build's report for the components it resolved,
\* and that report's warnings.
C25_BuildVerdictFromReport ==
    Returned("check_build_compatibility") =>
        /\ response.data.is_compatible = ResolvedBuildReport.compatible
        /\ response.data.warnings = ResolvedBuildReport.warnings

\* The warnings of the response are those of the report, in every response.
C25_WarningsFromReport ==
    Returned("check_build_compatibility") =>
        response.data.warnings = ResolvedBuildReport.warnings

\* A build whose every check passed is answered with is_compatible false.
C25_CompatibleBuildDenied ==
    /\ Returned("check_build_compatibility")
    /\ Len(ResolvedBuildReport.checks) >= 2
    /\ \A i \in 1..Len(ResolvedBuildReport.checks) :
          ResolvedBuildReport.checks[i].compatible
    /\ ResolvedBuildReport.compatible
    /\ ~response.data.is_compatible

-----------------------------------------------------------------------------
(* C28: check_component_pair is symmetric in its arguments *)

Verdict(data) ==
    [compatible |-> data.compatible,
     message |-> data.message,
     compatibility_type |-> data.compatibility_type]

\* The response to the request with the two IDs exchanged, made next.
SwappedPairResponse ==
    check_component_pair(request.component2_id, request.component1_id,
                         BuildCatalog, caches).response

\* C28: for every two components of the catalog, the requests (a, b) and
\* (b, a) to check_component_pair give the same compatible verdict, message
\* and compatibility_type.
C28_PairCheckSymmetric ==
    (/\ Returned("check_component_pair")
     /\ {request.component1_id, request.component2_id} \subseteq BuildCatalogIds)
    => /\ "data" \in DOMAIN response
       /\ "data" \in DOMAIN SwappedPairResponse
       /\ Verdict(response.data) = Verdict(SwappedPairResponse.data)

\* A motherboard was given before a video card and the pair was checked for
\* its PCIe slot.
C28_Witness ==
    /\ Returned("check_component_pair")
    /\ request.component1_id = "m1"
    /\ request.component2_id = "g1"
    /\ response.data.compatibility_type = "gpu_motherboard_pcie"
    /\ response.data.component1.id = "m1"
    /\ SwappedPairResponse.data.component1.id = "g1"

-----------------------------------------------------------------------------
(* C26: a repeated pair check is answered from the cache *)

IsRequest(entry) == "request" \in DOMAIN entry

\* No cache clear and no expiry lies between the history entries i and j.
NoCacheEventBetween(i, j) ==
    \A k \in (i + 1)..(j - 1) : IsRequest(history[k])

\* Entry i is a pair check that computed a result for the two IDs.
ComputedPair(i) ==
    /\ IsRequest(history[i])
    /\ history[i].request.op = "check_component_pair"
    /\ "data" \in DOMAIN history[i].response

\* Entry j is a pair check for the two IDs of entry i, in either order.
SamePairAgain(i, j) ==
    /\ IsRequest(history[j])
    /\ history[j].request.op = "check_component_pair"
    /\ {history[j].request.component1_id, history[j].request.component2_id}
          = {history[i].request.component1_id, history[i].request.component2_id}

\* C26: after check_component_pair has computed a result for two IDs, a
\* later request for the same two IDs in either order, with no expiry and no
\* cache clear in between, is answered without a query to the catalog.
C26_RepeatedPairFromCache ==
    \A i, j \in 1..Len(history) :
        (i < j /\ ComputedPair(i) /\ SamePairAgain(i, j) /\ NoCacheEventBetween(i, j))
        => history[j].queried = <<>>

\* The second of two consecutive requests for one pair of components
\* queried the catalog for both components again.
C26_RepeatQueriedCatalog ==
    /\ Len(history) = 2
    /\ ComputedPair(1)
    /\ SamePairAgain(1, 2)
    /\ history[2].queried
          = <<history[2].request.component1_id, history[2].request.component2_id>>
    /\ history[2].response.data = history[1].response.data

\* Nothing is ever stored for a pair: a store named compatibility does not
\* exist.
C26_NoPairStored ==
    /\ "compatibility" \notin DOMAIN caches
    /\ \A name \in DOMAIN caches : \A key \in DOMAIN caches[name] : key[1] # "pair"

-----------------------------------------------------------------------------
(* C30: a cached response carries the payload of the miss that filled it *)

\* Entry i is a request to the route op that was computed, not served from
\* the cache, and answered with data.
ComputedBy(op, i) ==
    /\ IsRequest(history[i])
    /\ history[i].request.op = op
    /\ history[i].queried # <<>>
    /\ "data" \in DOMAIN history[i].response

\* Entry j is the same request as entry i, served from the cache, and no
\* request in between was computed for it: the entry it was served from was
\* filled by entry i.
ServedFromFill(i, j) ==
    /\ i < j
    /\ IsRequest(history[j])
    /\ history[j].request = history[i].request
    /\ history[j].queried = <<>>
    /\ \A k \in (i + 1)..(j - 1) :
          (IsRequest(history[k]) /\ history[k].request = history[i].request)
          => history[k].queried = <<>>

SamePayloadAsFill(op) ==
    \A i, j \in 1..Len(history) :
        (ComputedBy(op, i) /\ ServedFromFill(i, j))
        => history[j].response.data = history[i].response.data

\* C30: for the facets and the component-details endpoints, a response
\* served from the cache carries the same data as the response computed on
\* the miss that filled the cache entry.
C30_CachedPayloadSame ==
    /\ SamePayloadAsFill("get_facets")
    /\ SamePayloadAsFill("get_component_details")

\* The component-details endpoint alone serves what it computed.
C30_DetailsPayloadSame == SamePayloadAsFill("get_component_details")

\* A facets request was served from the cache with the bare facets, where
\* the miss before it had answered with component_type and available_filters.
C30_FacetsPayloadDiffers ==
    /\ Len(history) = 2
    /\ ComputedBy("get_facets", 1)
    /\ ServedFromFill(1, 2)
    /\ history[2].response.data = history[1].response.data.available_filters
    /\ history[2].response.data # history[1].response.data

\* A details request was served from the cache.
C30_DetailsServedFromCache ==
    /\ Len(history) = 2
    /\ ComputedBy("get_component_details", 1)
    /\ ServedFromFill(1, 2)

-----------------------------------------------------------------------------
(* C27: the value score against the price *)

\* The positive prices of the model below the price of the request.
CheaperPrices ==
    {p \in PriceValues : 0 < p /\ p < Get(request.component, "price", 0)}

\* The value score of the record of the request at another price.
ValueScoreAt(price) ==
    calculate_value_score([request.component EXCEPT !.price = price],
                          request.component_type)

\* The middle of the expected price range of the request.
RequestBandMid ==
    BandMid(request.component_type,
            Get(request.component, "performance_tier", "mid-range"))

\* C27: for a fixed component type and tier, calculate_value_score is
\* non-increasing in the price over positive prices: a more expensive
\* component never gets a higher value score than a cheaper one.
C27_ValueScoreNonIncreasing ==
    (ReturnedValue("calculate_value_score")
        /\ Get(request.component, "price", 0) > 0)
    => \A p \in CheaperPrices : FracLe(response.returned, ValueScoreAt(p))

\* Among prices on one side of the middle of the band the score does not
\* increase with the price.
C27_NonIncreasingOnEachSide ==
    (ReturnedValue("calculate_value_score")
        /\ Get(request.component, "price", 0) > 0)
    => \A p \in CheaperPrices :
          (FracLe(Frac(p, 1), RequestBandMid)
              <=> FracLe(Frac(request.component.price, 1), RequestBandMid))
          => FracLe(response.returned, ValueScoreAt(p))

\* A mid-range CPU priced just above the middle of its band scores higher
\* than the same CPU priced at the middle.
C27_JumpAboveMiddle ==
    /\ ReturnedValue("calculate_value_score")
    /\ request.component_type = "CPU"
    /\ Get(request.component, "performance_tier", "mid-range") = "mid-range"
    /\ Get(request.component, "price", 0) = 301
    /\ ValueScoreAt(300) = Frac(70, 1)
    /\ ~FracLe(response.returned, ValueScoreAt(300))

-----------------------------------------------------------------------------
(* C29: the two PSU checks of one report *)

\* The check of the report with the given name is there and compatible.
CheckPassed(name) ==
    \E i \in 1..Len(response.checks) :
        response.checks[i].check = name /\ response.checks[i].compatible

CheckFailed(name) ==
    \E i \in 1..Len(response.checks) :
        response.checks[i].check = name /\ ~response.checks[i].compatible

\* The build of the request holds a CPU, a GPU and a PSU, as check_full_build
\* tests it: each role has a record that is not empty.  Every TDP of the
\* model is non-negative.
HasCpuGpuPsu ==
    /\ {"cpu", "gpu", "psu"} \subseteq DOMAIN request.build
    /\ TruthyDict(request.build.cpu)
    /\ TruthyDict(request.build.gpu)
    /\ TruthyDict(request.build.psu)

\* C29: in a report of check_full_build for a build with a CPU, a GPU and a
\* PSU with non-negative TDP values, the check 'PSU Wattage (CPU)' is
\* compatible whenever the check 'PSU Wattage (GPU)' is.
C29_GpuWattageImpliesCpuWattage ==
    (Returned("check_full_build") /\ HasCpuGpuPsu)
    => /\ CheckPassed("PSU Wattage (GPU)") \/ CheckFailed("PSU Wattage (GPU)")
       /\ CheckPassed("PSU Wattage (GPU)") => CheckPassed("PSU Wattage (CPU)")

\* Both checks passed for a 20 W video card, a CPU without a TDP and a 520 W
\* PSU.
C29_Witness ==
    /\ Returned("check_full_build")
    /\ HasCpuGpuPsu
    /\ Get(request.build.gpu.specs, "tdp", 0) = 20
    /\ "tdp" \notin DOMAIN Get(request.build.cpu, "specs", EmptyDict)
    /\ CheckPassed("PSU Wattage (GPU)")
    /\ CheckPassed("PSU Wattage (CPU)")

\* The converse fails: a PSU that is enough for the CPU alone may be short
\* for the CPU and the video card.
C29_CpuPassedGpuFailed ==
    /\ Returned("check_full_build")
    /\ HasCpuGpuPsu
    /\ CheckFailed("PSU Wattage (GPU)")
    /\ CheckPassed("PSU Wattage (CPU)")


=============================================================================
